---- MODULE Spec2Model ----
(***************************************************************************)
(* Eidolon VPN control plane: the relational store of routes, groups and   *)
(* assignments, VPNService's route resolver and traffic enforcement loop,  *)
(* and the OpenConnectServer daemon control interface.                     *)
(***************************************************************************)
EXTENDS Integers, Sequences, FiniteSets, TLC

VARIABLES
    users,         \* store, table users: id -> [username, role, trafficLimit]
    routeRows,     \* store, table routes: sequence of rows, id = position
    userRoutes,    \* store, table user_routes: set of <<user, route, enabled>>
    groupRows,     \* store, table route_groups: set of group ids
    groupItems,    \* store, table route_group_items: set of <<group, route>>
    userGroups,    \* store, table user_route_groups: set of <<user, group>>
    routes,        \* OpenConnectServer.routes (allow-list)
    blockRoutes,   \* OpenConnectServer.blockRoutes (block-list)
    traffic,       \* store, table user_traffic: sequence of rows, id = position
    activeConnections, \* VPNService.activeConnections: set of <<userID, username>>
    tickPc,        \* monitorTraffic: "idle" in the select, "loop" inside updateTrafficStats
    serverConnections, \* updateTrafficStats: the session list of the tick in progress
    idx,           \* updateTrafficStats: the position of the loop in serverConnections
    disconnects,   \* the DisconnectUser calls of the current tick, in order
    completedMaps, \* the values of activeConnections that completed ticks have left
    cmd,           \* OpenConnectServer.cmd: 0 for nil, else the slot of the exec.Cmd
    proc,          \* per exec.Cmd: its child process and how it exited
    watcher,       \* per exec.Cmd: the exit watcher goroutine Start spawned for it
    stopPc,        \* Stop: "idle", or "wait" in the select, the mutex held
    ctxCancelled,  \* the context handed to Start is done
    crashSeen,     \* a watcher has handled an exit that no stop had requested
    tickerC,       \* monitorTraffic: a tick of the ticker waits in ticker.C
    handlers,      \* TelegramBot: the handleUpdate goroutines and the rows they hold
    invites,       \* store, table invite_codes: sequence of rows, id = position
    calls,         \* InviteService: the calls in progress, between their store calls
    redemptions,   \* the <<code, user>> pairs of the users created through a code
    manager,       \* openconnect.Manager: running, cmd, its children and watchers
    last           \* the last call made and what it returned

storeVars == <<users, routeRows, userRoutes, groupRows, groupItems, userGroups>>
listVars == <<routes, blockRoutes>>
tickVars == <<traffic, activeConnections, tickPc, serverConnections, idx, disconnects,
               completedMaps>>
daemonVars == <<cmd, proc, watcher, stopPc, ctxCancelled, crashSeen>>
monitorVars == <<tickerC>>
botVars == <<handlers>>
inviteVars == <<invites, calls, redemptions>>
managerVars == <<manager>>
vars == <<users, routeRows, userRoutes, groupRows, groupItems, userGroups,
          routes, blockRoutes, traffic, activeConnections, tickPc,
          serverConnections, idx, disconnects, completedMaps, cmd, proc, watcher, stopPc,
          ctxCancelled, crashSeen, tickerC, handlers, invites, calls, redemptions,
          manager, last>>

----------------------------------------------------------------------------
(* Bounds *)

MaxRoutes == 2
MaxSamples == 3

\* the user ids of the route specifications, and the ids a route group can get
UserIds == {1}
GroupIds == {1}

----------------------------------------------------------------------------
(* models: roles and route types *)

RoleAdmin == "admin"
RoleUser == "user"
RoleVassal == "vassal"
RoleGuest == "guest"
Roles == {RoleAdmin, RoleUser, RoleVassal, RoleGuest}

RouteTypeDefault == "default"
RouteTypeCustom == "custom"
RouteTypeASN == "asn"
RouteTypeBlock == "blocked"

User(username, role, trafficLimit) ==
    [username |-> username, role |-> role, trafficLimit |-> trafficLimit]

----------------------------------------------------------------------------
(* net.ParseCIDR and IPNet.String on IPv4 text a.b.c.d/len, held as the     *)
(* tuple <<a, b, c, d, len>>.                                               *)

RECURSIVE Pow2(_)
Pow2(n) == IF n = 0 THEN 1 ELSE 2 * Pow2(n - 1)

Min(a, b) == IF a < b THEN a ELSE b
Max(a, b) == IF a > b THEN a ELSE b

\* the number of bits of octet i (1..4) the prefix length keeps
KeptBits(len, i) == Max(0, Min(8, len - 8 * (i - 1)))

MaskOctet(o, k) == o - (o % Pow2(8 - k))

CIDRSyntaxOk(s) ==
    /\ \A i \in 1..4 : s[i] \in 0..255
    /\ s[5] \in 0..32

\* IPNet.String(): the address masked to the prefix, and the prefix length
Masked(s) == [i \in 1..5 |-> IF i = 5 THEN s[5] ELSE MaskOctet(s[i], KeptBits(s[5], i))]

ParseCIDRAcceptsAll(s) == [err |-> FALSE, ipNet |-> s]
ParseCIDR(s) ==
    IF CIDRSyntaxOk(s) THEN [err |-> FALSE, ipNet |-> Masked(s)]
                       ELSE [err |-> TRUE, ipNet |-> <<>>]

NetA == <<10, 0, 0, 0, 24>>
NetAHost == <<10, 0, 0, 5, 24>>
NetB == <<192, 168, 0, 0, 16>>
NetBadLen == <<10, 0, 0, 0, 33>>
NetBadOctet == <<256, 1, 1, 1, 8>>

----------------------------------------------------------------------------
(* OpenConnectServer allow/block lists *)

InListNever(list, cidr) == FALSE
InList(list, cidr) == \E i \in 1..Len(list) : list[i] = cidr

\* AddRoute / BlockRoute on one list: [err, list]
ListAdd(list, cidr) ==
    IF ParseCIDR(cidr).err THEN [err |-> TRUE, list |-> list]
    ELSE IF InList(list, cidr) THEN [err |-> FALSE, list |-> list]
    ELSE [err |-> FALSE, list |-> Append(list, cidr)]

AddRoute(cidr) == ListAdd(routes, cidr)
BlockRoute(cidr) == ListAdd(blockRoutes, cidr)

\* RemoveRoute / UnblockRoute on one list: the first equal entry is cut out
RECURSIVE ListRemove(_, _)
ListRemove(list, cidr) ==
    IF list = <<>> THEN <<>>
    ELSE IF Head(list) = cidr THEN Tail(list)
    ELSE <<Head(list)>> \o ListRemove(Tail(list), cidr)

RemoveRoute(cidr) == ListRemove(routes, cidr)
UnblockRoute(cidr) == ListRemove(blockRoutes, cidr)

\* the arguments Start hands to ocserv: one --route= per entry of routes, one
\* --no-route= per entry of blockRoutes
StartArgsAllowOnly(allow, block) == [route |-> allow, noRoute |-> <<>>]
StartArgs(allow, block) == [route |-> allow, noRoute |-> block]

----------------------------------------------------------------------------
(* PostgresRouteRepository *)

RouteIds == 1..Len(routeRows)

\* INSERT INTO routes ... RETURNING id
RepoCreateRoute(network, type) == Append(routeRows, [network |-> network, type |-> type])

Ret(op, arg, err, out) == [op |-> op, arg |-> arg, err |-> err, out |-> out]

----------------------------------------------------------------------------
(* VPNService.CreateRoute and RouteService.CreateRoute *)

\* the allow/block lists after VPNService.CreateRoute stored a route
ListsAfterCreate(network, type) ==
    IF type \in {RouteTypeDefault, RouteTypeCustom}
    THEN <<AddRoute(network).list, blockRoutes>>
    ELSE IF type = RouteTypeBlock
    THEN <<routes, BlockRoute(network).list>>
    ELSE <<routes, blockRoutes>>

VPNCreateRoute(network, type, dbOk) ==
    /\ Len(routeRows) < MaxRoutes
    /\ IF ~dbOk
       THEN /\ last' = Ret("VPNCreateRoute", <<network, type>>, TRUE, 0)
            /\ UNCHANGED <<storeVars, listVars>>
       ELSE /\ routeRows' = RepoCreateRoute(network, type)
            /\ routes' = ListsAfterCreate(network, type)[1]
            /\ blockRoutes' = ListsAfterCreate(network, type)[2]
            /\ last' = Ret("VPNCreateRoute", <<network, type>>, FALSE, Len(routeRows) + 1)
            /\ UNCHANGED <<users, userRoutes, groupRows, groupItems, userGroups>>

\* the row RouteService.CreateRoute hands to the repository
NormalizedRoute(network, type) ==
    [network |-> ParseCIDR(network).ipNet,
     type |-> IF type = "" THEN RouteTypeCustom ELSE type]

RouteServiceCreateRoute(network, type, dbOk) ==
    /\ Len(routeRows) < MaxRoutes
    /\ IF ParseCIDR(network).err \/ ~dbOk
       THEN /\ last' = Ret("RouteServiceCreateRoute", <<network, type>>, TRUE, 0)
            /\ UNCHANGED <<storeVars, listVars>>
       ELSE /\ routeRows' = RepoCreateRoute(NormalizedRoute(network, type).network,
                                            NormalizedRoute(network, type).type)
            /\ last' = Ret("RouteServiceCreateRoute", <<network, type>>, FALSE,
                           Len(routeRows) + 1)
            /\ UNCHANGED <<users, userRoutes, groupRows, groupItems, userGroups, listVars>>

----------------------------------------------------------------------------
(* PostgresRouteRepository: the queries of the resolver.  Every list query  *)
(* is ORDER BY id.                                                          *)

RECURSIVE SortedSeq(_)
SortedSeq(S) ==
    IF S = {} THEN <<>>
    ELSE LET m == CHOOSE x \in S : \A y \in S : x <= y
         IN <<m>> \o SortedSeq(S \ {m})

RouteOf(r) == [id |-> r, network |-> routeRows[r].network, type |-> routeRows[r].type]

RoutesOf(S) == [i \in 1..Cardinality(S) |-> RouteOf(SortedSeq(S)[i])]

\* SELECT r.*, ur.enabled FROM routes r JOIN user_routes ur ... WHERE ur.user_id = $1
RepoGetUserRoutes(u) == RoutesOf({r \in RouteIds : \E e \in BOOLEAN : <<u, r, e>> \in userRoutes})

\* SELECT g.*, ug.enabled FROM route_groups g JOIN user_route_groups ug ... WHERE ug.user_id = $1
RepoGetUserGroups(u) == SortedSeq({g \in groupRows : <<u, g>> \in userGroups})

\* SELECT r.* FROM routes r JOIN route_group_items gi ... WHERE gi.group_id = $1
RepoGetRoutesInGroup(g) == RoutesOf({r \in RouteIds : <<g, r>> \in groupItems})

\* SELECT * FROM routes WHERE type = $1
RepoListRoutes(type) == RoutesOf({r \in RouteIds : routeRows[r].type = type})

----------------------------------------------------------------------------
(* VPNService.GetUserRoutes.  fail names the store read that fails in this  *)
(* call, <<kind, group>>: kind is "none", "user", "routes", "groups",      *)
(* "defaults", or "group" for the member routes of that one group.         *)

ErrResult == [err |-> TRUE, isNil |-> TRUE, list |-> <<>>]
OkResult(list) == [err |-> FALSE, isNil |-> FALSE, list |-> list]

\* a list without the entries it already holds further left
RECURSIVE Dedup(_)
Dedup(list) ==
    IF list = <<>> THEN <<>>
    ELSE LET front == Dedup(SubSeq(list, 1, Len(list) - 1))
             x == list[Len(list)]
         IN IF \E i \in 1..Len(front) : front[i] = x THEN front ELSE Append(front, x)

\* the loop over the groups, merging the routes already in the list
RECURSIVE AppendGroupRoutesMerged(_, _, _)
AppendGroupRoutesMerged(acc, groups, fail) ==
    IF groups = <<>> THEN Dedup(acc)
    ELSE AppendGroupRoutesMerged(
             IF fail = <<"group", Head(groups)>> THEN acc
             ELSE acc \o RepoGetRoutesInGroup(Head(groups)),
             Tail(groups), fail)

\* the loop over the groups: a group whose fetch fails is logged and skipped
RECURSIVE AppendGroupRoutes(_, _, _)
AppendGroupRoutes(acc, groups, fail) ==
    IF groups = <<>> THEN acc
    ELSE AppendGroupRoutes(
             IF fail = <<"group", Head(groups)>> THEN acc
             ELSE acc \o RepoGetRoutesInGroup(Head(groups)),
             Tail(groups), fail)

\* the fallback taken for every vassal, whatever was accumulated
NeedsDefaultsByRole(role, merged) == role = RoleVassal

\* the vassal fallback condition, on the accumulated list
NeedsDefaults(role, merged) == role = RoleVassal /\ Len(merged) = 0

\* GetUserRoutes with the groups read's failure path returning the list read
\* so far beside the error
GetUserRoutesKeepsList(userID, fail) ==
    IF fail[1] = "user" \/ userID \notin DOMAIN users THEN ErrResult
    ELSE IF fail[1] = "routes" THEN ErrResult
    ELSE IF fail[1] = "groups"
    THEN [err |-> TRUE, isNil |-> FALSE, list |-> RepoGetUserRoutes(userID)]
    ELSE LET merged == AppendGroupRoutes(RepoGetUserRoutes(userID),
                                         RepoGetUserGroups(userID), fail)
         IN IF NeedsDefaults(users[userID].role, merged)
            THEN IF fail[1] = "defaults" THEN ErrResult
                 ELSE OkResult(merged \o RepoListRoutes(RouteTypeDefault))
            ELSE OkResult(merged)

GetUserRoutes(userID, fail) ==
    IF fail[1] = "user" \/ userID \notin DOMAIN users THEN ErrResult
    ELSE IF fail[1] = "routes" THEN ErrResult
    ELSE IF fail[1] = "groups" THEN ErrResult
    ELSE LET merged == AppendGroupRoutes(RepoGetUserRoutes(userID),
                                         RepoGetUserGroups(userID), fail)
         IN IF NeedsDefaults(users[userID].role, merged)
            THEN IF fail[1] = "defaults" THEN ErrResult
                 ELSE OkResult(merged \o RepoListRoutes(RouteTypeDefault))
            ELSE OkResult(merged)

\* GetUserRoutes keeping the defaults it fell back to as edges of the user
ResolveRoutesKeepingDefaults(userID, fail) ==
    /\ last' = Ret("GetUserRoutes", <<userID, fail>>, GetUserRoutes(userID, fail).err,
                   GetUserRoutes(userID, fail))
    /\ userRoutes' =
           IF ~GetUserRoutes(userID, fail).err
              /\ NeedsDefaults(users[userID].role,
                               AppendGroupRoutes(RepoGetUserRoutes(userID),
                                                 RepoGetUserGroups(userID), fail))
           THEN userRoutes \cup
                {<<userID, r, TRUE>> : r \in {x \in RouteIds : routeRows[x].type = RouteTypeDefault}}
           ELSE userRoutes
    /\ UNCHANGED <<users, routeRows, groupRows, groupItems, userGroups, listVars>>

ResolveRoutes(userID, fail) ==
    /\ last' = Ret("GetUserRoutes", <<userID, fail>>, GetUserRoutes(userID, fail).err,
                   GetUserRoutes(userID, fail))
    /\ UNCHANGED <<storeVars, listVars>>

----------------------------------------------------------------------------
(* models.User.GetRoleLimits *)

GetRoleLimitsOfAdmin(role) ==
    [MaxInvites |-> -1, MaxVPNConnections |-> -1, CanAddRoutes |-> TRUE,
     CanViewLogs |-> TRUE, CanManageUsers |-> TRUE, CanManageInvites |-> TRUE,
     CanViewInviteTree |-> TRUE, CanOverrideAdminRoutes |-> TRUE]

\* a policy that grants the vassal everything and the other roles nothing
GetRoleLimitsInverted(role) ==
    IF role = RoleVassal THEN GetRoleLimitsOfAdmin(role)
    ELSE [MaxInvites |-> 0, MaxVPNConnections |-> 0, CanAddRoutes |-> FALSE,
          CanViewLogs |-> FALSE, CanManageUsers |-> FALSE, CanManageInvites |-> FALSE,
          CanViewInviteTree |-> FALSE, CanOverrideAdminRoutes |-> FALSE]

GetRoleLimits(role) ==
    CASE role = RoleAdmin ->
           [MaxInvites |-> -1, MaxVPNConnections |-> -1, CanAddRoutes |-> TRUE,
            CanViewLogs |-> TRUE, CanManageUsers |-> TRUE, CanManageInvites |-> TRUE,
            CanViewInviteTree |-> TRUE, CanOverrideAdminRoutes |-> TRUE]
      [] role = RoleUser ->
           [MaxInvites |-> 4, MaxVPNConnections |-> 1, CanAddRoutes |-> TRUE,
            CanViewLogs |-> FALSE, CanManageUsers |-> FALSE, CanManageInvites |-> TRUE,
            CanViewInviteTree |-> TRUE, CanOverrideAdminRoutes |-> FALSE]
      [] role = RoleVassal ->
           [MaxInvites |-> 0, MaxVPNConnections |-> 1, CanAddRoutes |-> FALSE,
            CanViewLogs |-> FALSE, CanManageUsers |-> FALSE, CanManageInvites |-> FALSE,
            CanViewInviteTree |-> FALSE, CanOverrideAdminRoutes |-> FALSE]
      [] OTHER ->
           [MaxInvites |-> 0, MaxVPNConnections |-> 0, CanAddRoutes |-> FALSE,
            CanViewLogs |-> FALSE, CanManageUsers |-> FALSE, CanManageInvites |-> FALSE,
            CanViewInviteTree |-> FALSE, CanOverrideAdminRoutes |-> FALSE]

----------------------------------------------------------------------------
(* PostgresRouteRepository: edges.  The foreign keys of user_routes,        *)
(* user_route_groups and route_group_items refuse a row naming a missing    *)
(* user, route or group.                                                    *)

EdgesOf(u, r) == {x \in userRoutes : x[1] = u /\ x[2] = r}

\* INSERT INTO user_routes ... ON CONFLICT (user_id, route_id) DO UPDATE SET enabled = $3
RepoAssignRouteToUser(u, r, enabled) == (userRoutes \ EdgesOf(u, r)) \cup {<<u, r, enabled>>}

\* DELETE FROM user_routes WHERE user_id = $1 AND route_id = $2
RepoUnassignRouteFromUser(u, r) == userRoutes \ EdgesOf(u, r)

\* VPNService.AddUserRoute
AddUserRoute(userID, routeID) ==
    /\ IF userID \notin DOMAIN users
          \/ ~GetRoleLimits(users[userID].role).CanAddRoutes
          \/ routeID \notin RouteIds
       THEN /\ last' = Ret("AddUserRoute", <<userID, routeID>>, TRUE, 0)
            /\ UNCHANGED userRoutes
       ELSE /\ userRoutes' = RepoAssignRouteToUser(userID, routeID, TRUE)
            /\ last' = Ret("AddUserRoute", <<userID, routeID>>, FALSE, 0)
    /\ UNCHANGED <<users, routeRows, groupRows, groupItems, userGroups, listVars>>

\* VPNService.RemoveUserRoute
RemoveUserRoute(userID, routeID) ==
    /\ IF userID \notin DOMAIN users
          \/ ~GetRoleLimits(users[userID].role).CanAddRoutes
       THEN /\ last' = Ret("RemoveUserRoute", <<userID, routeID>>, TRUE, 0)
            /\ UNCHANGED userRoutes
       ELSE /\ userRoutes' = RepoUnassignRouteFromUser(userID, routeID)
            /\ last' = Ret("RemoveUserRoute", <<userID, routeID>>, FALSE, 0)
    /\ UNCHANGED <<users, routeRows, groupRows, groupItems, userGroups, listVars>>

\* RouteService.AssignRouteToUser: the caller's UserRoute, enabled flag included
AssignRouteToUser(userID, routeID, enabled) ==
    /\ IF userID \notin DOMAIN users \/ routeID \notin RouteIds
       THEN /\ last' = Ret("AssignRouteToUser", <<userID, routeID, enabled>>, TRUE, 0)
            /\ UNCHANGED userRoutes
       ELSE /\ userRoutes' = RepoAssignRouteToUser(userID, routeID, enabled)
            /\ last' = Ret("AssignRouteToUser", <<userID, routeID, enabled>>, FALSE, 0)
    /\ UNCHANGED <<users, routeRows, groupRows, groupItems, userGroups, listVars>>

\* VPNService.CreateRouteGroup
CreateRouteGroup ==
    /\ Cardinality(groupRows) + 1 \in GroupIds
    /\ groupRows' = groupRows \cup {Cardinality(groupRows) + 1}
    /\ last' = Ret("CreateRouteGroup", <<>>, FALSE, Cardinality(groupRows) + 1)
    /\ UNCHANGED <<users, routeRows, userRoutes, groupItems, userGroups, listVars>>

\* VPNService.AddRouteToGroup: INSERT ... ON CONFLICT (group_id, route_id) DO NOTHING
AddRouteToGroup(groupID, routeID) ==
    /\ IF groupID \notin groupRows \/ routeID \notin RouteIds
       THEN /\ last' = Ret("AddRouteToGroup", <<groupID, routeID>>, TRUE, 0)
            /\ UNCHANGED groupItems
       ELSE /\ groupItems' = groupItems \cup {<<groupID, routeID>>}
            /\ last' = Ret("AddRouteToGroup", <<groupID, routeID>>, FALSE, 0)
    /\ UNCHANGED <<users, routeRows, userRoutes, groupRows, userGroups, listVars>>

\* VPNService.RemoveRouteFromGroup
RemoveRouteFromGroup(groupID, routeID) ==
    /\ groupItems' = groupItems \ {<<groupID, routeID>>}
    /\ last' = Ret("RemoveRouteFromGroup", <<groupID, routeID>>, FALSE, 0)
    /\ UNCHANGED <<users, routeRows, userRoutes, groupRows, userGroups, listVars>>

\* VPNService.AddUserRouteGroup
AddUserRouteGroup(userID, groupID) ==
    /\ IF userID \notin DOMAIN users
          \/ ~GetRoleLimits(users[userID].role).CanAddRoutes
          \/ groupID \notin groupRows
       THEN /\ last' = Ret("AddUserRouteGroup", <<userID, groupID>>, TRUE, 0)
            /\ UNCHANGED userGroups
       ELSE /\ userGroups' = userGroups \cup {<<userID, groupID>>}
            /\ last' = Ret("AddUserRouteGroup", <<userID, groupID>>, FALSE, 0)
    /\ UNCHANGED <<users, routeRows, userRoutes, groupRows, groupItems, listVars>>

\* VPNService.RemoveUserRouteGroup
RemoveUserRouteGroup(userID, groupID) ==
    /\ IF userID \notin DOMAIN users
          \/ ~GetRoleLimits(users[userID].role).CanAddRoutes
       THEN /\ last' = Ret("RemoveUserRouteGroup", <<userID, groupID>>, TRUE, 0)
            /\ UNCHANGED userGroups
       ELSE /\ userGroups' = userGroups \ {<<userID, groupID>>}
            /\ last' = Ret("RemoveUserRouteGroup", <<userID, groupID>>, FALSE, 0)
    /\ UNCHANGED <<users, routeRows, userRoutes, groupRows, groupItems, listVars>>

\* RouteService.AssignGroupToUser: no permission check
AssignGroupToUser(userID, groupID) ==
    /\ IF userID \notin DOMAIN users \/ groupID \notin groupRows
       THEN /\ last' = Ret("AssignGroupToUser", <<userID, groupID>>, TRUE, 0)
            /\ UNCHANGED userGroups
       ELSE /\ userGroups' = userGroups \cup {<<userID, groupID>>}
            /\ last' = Ret("AssignGroupToUser", <<userID, groupID>>, FALSE, 0)
    /\ UNCHANGED <<users, routeRows, userRoutes, groupRows, groupItems, listVars>>

----------------------------------------------------------------------------
(* Specification of route creation: both CreateRoute entry points on every  *)
(* kind of network text.                                                    *)

CreateNetworks == {NetA, NetAHost, NetB, NetBadLen, NetBadOctet}
CreateTypes == {RouteTypeDefault, RouteTypeCustom, RouteTypeBlock, RouteTypeASN, ""}

InitStore ==
    /\ users = [u \in UserIds |-> User("alice", RoleUser, 0)]
    /\ routeRows = <<>>
    /\ userRoutes = {}
    /\ groupRows = {}
    /\ groupItems = {}
    /\ userGroups = {}

InitLists ==
    /\ routes = <<>>
    /\ blockRoutes = <<>>

InitTick ==
    /\ traffic = <<>>
    /\ activeConnections = {}
    /\ tickPc = "idle"
    /\ serverConnections = <<>>
    /\ idx = 0
    /\ disconnects = <<>>
    /\ completedMaps = {{}}
    /\ tickerC = FALSE

\* the handleUpdate goroutines that can run at one time
Handlers == {1, 2}

IdleHandler == [pc |-> "idle", kind |-> "", from |-> 0, user |-> User("", "", 0),
                action |-> "", param |-> 0, target |-> User("", "", 0)]

\* TelegramBot.Start: no update is being handled
InitBot == handlers = [h \in Handlers |-> IdleHandler]

\* the InviteService calls that can be in progress at one time
Calls == {1, 2}

IdleCall == [pc |-> "idle", code |-> 0, key |-> 0, username |-> "", role |-> "",
             creator |-> 0]

\* a fresh database has no invite code, and no call is in progress
InitInvites ==
    /\ invites = <<>>
    /\ calls = [c \in Calls |-> IdleCall]
    /\ redemptions = {}

\* the exec.Cmd objects a Manager has created that are still referred to
ManagerCmds == {1, 2}

\* NewManager: running is false, cmd is nil
InitManager ==
    manager = [running |-> FALSE, cmd |-> 0,
               child |-> [p \in ManagerCmds |-> "none"],
               watcher |-> [p \in ManagerCmds |-> [pc |-> "none", cmd |-> 0]]]

\* the exec.Cmd objects that can be referred to at one time
Cmds == {1, 2}

NoProc == [st |-> "none", exitErr |-> FALSE, afterStop |-> FALSE, args |-> StartArgs(<<>>, <<>>)]
NoWatcher == [pc |-> "none", target |-> 0, err |-> FALSE]

\* NewOpenConnectServer: no exec.Cmd yet, nothing spawned
InitDaemon ==
    /\ cmd = 0
    /\ proc = [p \in Cmds |-> NoProc]
    /\ watcher = [p \in Cmds |-> NoWatcher]
    /\ stopPc = "idle"
    /\ ctxCancelled = FALSE
    /\ crashSeen = FALSE

InitCreate ==
    /\ InitStore
    /\ InitLists
    /\ InitTick
    /\ InitDaemon
    /\ InitBot
    /\ InitInvites
    /\ InitManager
    /\ last = Ret("init", <<>>, FALSE, 0)

CreateStep ==
    \/ \E n \in CreateNetworks, t \in CreateTypes, ok \in BOOLEAN : VPNCreateRoute(n, t, ok)
    \/ \E n \in CreateNetworks, t \in CreateTypes, ok \in BOOLEAN :
           RouteServiceCreateRoute(n, t, ok)

NextCreate == CreateStep /\ UNCHANGED <<tickVars, daemonVars, monitorVars, botVars, inviteVars, managerVars>>

SpecCreate == InitCreate /\ [][NextCreate]_vars

----------------------------------------------------------------------------
(* Specification of the route resolver over the store: one stored user of   *)
(* any role, routes of the default and custom types, groups and edges       *)
(* written through the services, and GetUserRoutes with any one store read  *)
(* failing.                                                                 *)

ReqRouteIds == 1..MaxRoutes
ResolveInputs == {<<NetA, RouteTypeCustom>>, <<NetB, RouteTypeDefault>>}
FailKinds == {"none", "user", "routes", "groups", "defaults"}
Fails == {<<k, 0>> : k \in FailKinds} \cup {<<"group", g>> : g \in GroupIds}
NoFail == <<"none", 0>>

InitRoutes ==
    /\ users \in {[u \in UserIds |-> User("alice", r, 0)] : r \in Roles}
    /\ routeRows = <<>>
    /\ userRoutes = {}
    /\ groupRows = {}
    /\ groupItems = {}
    /\ userGroups = {}
    /\ InitLists
    /\ InitTick
    /\ InitDaemon
    /\ InitBot
    /\ InitInvites
    /\ InitManager
    /\ last = Ret("init", <<>>, FALSE, 0)

RoutesStep ==
    \/ \E in \in ResolveInputs : VPNCreateRoute(in[1], in[2], TRUE)
    \/ \E u \in UserIds, r \in ReqRouteIds : AddUserRoute(u, r)
    \/ \E u \in UserIds, r \in ReqRouteIds : RemoveUserRoute(u, r)
    \/ \E u \in UserIds, r \in ReqRouteIds, e \in BOOLEAN : AssignRouteToUser(u, r, e)
    \/ CreateRouteGroup
    \/ \E g \in GroupIds, r \in ReqRouteIds : AddRouteToGroup(g, r)
    \/ \E g \in GroupIds, r \in ReqRouteIds : RemoveRouteFromGroup(g, r)
    \/ \E u \in UserIds, g \in GroupIds : AddUserRouteGroup(u, g)
    \/ \E u \in UserIds, g \in GroupIds : RemoveUserRouteGroup(u, g)
    \/ \E u \in UserIds, g \in GroupIds : AssignGroupToUser(u, g)
    \/ \E u \in UserIds, f \in Fails : ResolveRoutes(u, f)

NextRoutes == RoutesStep /\ UNCHANGED <<tickVars, daemonVars, monitorVars, botVars, inviteVars, managerVars>>

SpecRoutes == InitRoutes /\ [][NextRoutes]_vars

----------------------------------------------------------------------------
(* Specification of the resolver's merge: two routes and two groups are in  *)
(* the store, and the edges of one user to them come and go.                *)

MergeGroupIds == {1, 2}
MergeFails == {NoFail} \cup {<<"group", g>> : g \in MergeGroupIds}

InitMerge ==
    /\ users \in {[u \in UserIds |-> User("alice", r, 0)] : r \in {RoleUser, RoleVassal}}
    /\ routeRows = <<[network |-> NetA, type |-> RouteTypeCustom],
                     [network |-> NetB, type |-> RouteTypeDefault]>>
    /\ userRoutes = {}
    /\ groupRows = MergeGroupIds
    /\ groupItems = {}
    /\ userGroups = {}
    /\ InitLists
    /\ InitTick
    /\ InitDaemon
    /\ InitBot
    /\ InitInvites
    /\ InitManager
    /\ last = Ret("init", <<>>, FALSE, 0)

MergeStep ==
    \/ \E u \in UserIds, r \in RouteIds, e \in BOOLEAN : AssignRouteToUser(u, r, e)
    \/ \E u \in UserIds, r \in RouteIds : RemoveUserRoute(u, r)
    \/ \E g \in MergeGroupIds, r \in RouteIds : AddRouteToGroup(g, r)
    \/ \E g \in MergeGroupIds, r \in RouteIds : RemoveRouteFromGroup(g, r)
    \/ \E u \in UserIds, g \in MergeGroupIds : AssignGroupToUser(u, g)
    \/ \E u \in UserIds, g \in MergeGroupIds : RemoveUserRouteGroup(u, g)
    \/ \E u \in UserIds, f \in MergeFails : ResolveRoutes(u, f)

NextMerge == MergeStep /\ UNCHANGED <<tickVars, daemonVars, monitorVars, botVars, inviteVars, managerVars>>

SpecMerge == InitMerge /\ [][NextMerge]_vars

----------------------------------------------------------------------------
(* The traffic enforcement loop: VPNService.updateTrafficStats, one tick of *)
(* monitorTraffic, taken one session identifier at a time.                  *)

\* SELECT * FROM users WHERE username = $1
RepoGetByUsername(username) == {u \in DOMAIN users : users[u].username = username}

\* INSERT INTO user_traffic (user_id, bytes, timestamp)
LogTraffic(userID, bytes) == Append(traffic, [userId |-> userID, bytes |-> bytes])

RECURSIVE SumBytes(_, _)
SumBytes(rows, userID) ==
    IF rows = <<>> THEN 0
    ELSE (IF Head(rows).userId = userID THEN Head(rows).bytes ELSE 0)
         + SumBytes(Tail(rows), userID)

\* SELECT COALESCE(SUM(bytes), 0) FROM user_traffic WHERE user_id = $1
GetTotalUserTraffic(rows, userID) == SumBytes(rows, userID)

\* UserTraffic.Bytes of the sample of a tick
SampleBytesInOnly(bytesIn, bytesOut) == bytesIn
SampleBytes(bytesIn, bytesOut) == bytesIn + bytesOut

\* the quota test of the loop
ExceedsLimitOrEqual(totalTraffic, trafficLimit) == totalTraffic >= trafficLimit
ExceedsLimit(totalTraffic, trafficLimit) == totalTraffic > trafficLimit

\* s.activeConnections[user.ID] = username
SetActive(map, userID, username) ==
    {p \in map : p[1] # userID} \cup {<<userID, username>>}

StepRet(username, resolved, userID, sampled, bytesIn, bytesOut, logged, totalRead) ==
    Ret("updateTrafficStats.step", <<username>>, FALSE,
        [resolved |-> resolved, userId |-> userID, sampled |-> sampled,
         bytesIn |-> bytesIn, bytesOut |-> bytesOut, logged |-> logged,
         totalRead |-> totalRead])

\* if err != nil after GetActiveConnections: log and return
FetchFailedIgnored(connOk) == FALSE
FetchFailed(connOk) == ~connOk

\* s.activeConnections = make(map[int64]string)
FreshMapKeepsOld(old) == old
FreshMap(old) == {}

\* continue: the loop goes on with the next identifier
SkipToEnd(i, n) == n + 1
SkipTo(i, n) == i + 1

\* the start of a tick: GetActiveConnections, then the map is replaced
UpdateTrafficStatsBegin(connOk, list) ==
    /\ tickPc = "idle"
    /\ Len(traffic) + Len(list) <= MaxSamples
    /\ IF FetchFailed(connOk)
       THEN /\ last' = Ret("updateTrafficStats", <<>>, TRUE, [fetched |-> connOk])
            /\ UNCHANGED tickVars
       ELSE /\ activeConnections' = FreshMap(activeConnections)
            /\ serverConnections' = list
            /\ idx' = 1
            /\ tickPc' = "loop"
            /\ disconnects' = <<>>
            /\ last' = Ret("updateTrafficStats", list, FALSE, [fetched |-> connOk])
            /\ UNCHANGED <<traffic, completedMaps>>
    /\ UNCHANGED <<storeVars, listVars>>

\* one pass of the loop body, for serverConnections[idx]
UpdateTrafficStatsStep(lookupOk, statsOk, stats, logOk, totalOk) ==
    /\ tickPc = "loop"
    /\ idx <= Len(serverConnections)
    /\ LET username == serverConnections[idx]
           found == lookupOk /\ RepoGetByUsername(username) # {}
           userID == CHOOSE u \in RepoGetByUsername(username) : TRUE
           limit == users[userID].trafficLimit
           rows == IF logOk THEN LogTraffic(userID, SampleBytes(stats[1], stats[2]))
                            ELSE traffic
       IN IF ~found
          THEN /\ last' = StepRet(username, FALSE, 0, FALSE, 0, 0, FALSE, FALSE)
               /\ idx' = SkipTo(idx, Len(serverConnections))
               /\ UNCHANGED <<traffic, activeConnections, disconnects>>
          ELSE /\ activeConnections' = SetActive(activeConnections, userID, username)
               /\ IF ~statsOk
                  THEN /\ last' = StepRet(username, TRUE, userID, FALSE, 0, 0, FALSE, FALSE)
                       /\ idx' = SkipTo(idx, Len(serverConnections))
                       /\ UNCHANGED <<traffic, disconnects>>
                  ELSE /\ idx' = idx + 1
                       /\ traffic' = rows
                       /\ disconnects' =
                              IF /\ limit > 0
                                 /\ totalOk
                                 /\ ExceedsLimit(GetTotalUserTraffic(rows, userID), limit)
                              THEN Append(disconnects, username)
                              ELSE disconnects
                       /\ last' = StepRet(username, TRUE, userID, TRUE, stats[1], stats[2],
                                          logOk, limit > 0 /\ totalOk)
    /\ UNCHANGED <<tickPc, serverConnections, completedMaps, storeVars, listVars>>

\* the loop is over: updateTrafficStats returns to monitorTraffic's select
UpdateTrafficStatsReturn ==
    /\ tickPc = "loop"
    /\ idx > Len(serverConnections)
    /\ tickPc' = "idle"
    /\ serverConnections' = <<>>
    /\ idx' = 0
    /\ completedMaps' = completedMaps \cup {activeConnections}
    /\ last' = Ret("updateTrafficStats.return", <<>>, FALSE, 0)
    /\ UNCHANGED <<traffic, activeConnections, disconnects, storeVars, listVars>>

----------------------------------------------------------------------------
(* Specification of the enforcement loop: two stored users, alice with a    *)
(* quota of 5000 bytes and bob with none, and session lists that also name  *)
(* an identifier no user has and name one identifier twice.                 *)

TickUsers == <<User("alice", RoleUser, 5000), User("bob", RoleVassal, 0)>>
SessionLists ==
    {<<>>, <<"alice">>, <<"bob">>, <<"alice", "bob">>, <<"ghost", "alice">>,
     <<"alice", "alice">>, <<"bob", "bob">>}
StatsOutputs == {<<1000, 2000>>, <<2000, 0>>}

InitEnforce ==
    /\ users = TickUsers
    /\ routeRows = <<>>
    /\ userRoutes = {}
    /\ groupRows = {}
    /\ groupItems = {}
    /\ userGroups = {}
    /\ InitLists
    /\ InitTick
    /\ InitDaemon
    /\ InitBot
    /\ InitInvites
    /\ InitManager
    /\ last = Ret("init", <<>>, FALSE, 0)

EnforceStep ==
    \/ \E ok \in BOOLEAN, list \in SessionLists : UpdateTrafficStatsBegin(ok, list)
    \/ \E lookupOk \in BOOLEAN, statsOk \in BOOLEAN, stats \in StatsOutputs,
          logOk \in BOOLEAN, totalOk \in BOOLEAN :
           UpdateTrafficStatsStep(lookupOk, statsOk, stats, logOk, totalOk)
    \/ UpdateTrafficStatsReturn

NextEnforce == EnforceStep /\ UNCHANGED <<daemonVars, monitorVars, botVars, inviteVars, managerVars>>

SpecEnforce == InitEnforce /\ [][NextEnforce]_vars

----------------------------------------------------------------------------
(* The readers of the active-connections map, called from the bot and API   *)
(* handlers while monitorTraffic runs: each takes the read lock for its     *)
(* read, and the tick takes the write lock once per write.                  *)

\* VPNService.GetActiveConnections: a copy of the map, made under RLock
VPNGetActiveConnections ==
    /\ last' = Ret("GetActiveConnections", <<>>, FALSE, activeConnections)
    /\ UNCHANGED <<tickVars, storeVars, listVars>>

\* VPNService.DisconnectUser: the lookup under RLock, "user is not connected"
\* when the map has no entry
VPNDisconnectUser(userID) ==
    /\ last' = Ret("DisconnectUser", <<userID>>,
                   ~(\E c \in activeConnections : c[1] = userID), activeConnections)
    /\ UNCHANGED <<tickVars, storeVars, listVars>>

ReadersStep ==
    \/ EnforceStep
    \/ VPNGetActiveConnections
    \/ \E u \in DOMAIN users : VPNDisconnectUser(u)

NextReaders == ReadersStep /\ UNCHANGED <<daemonVars, monitorVars, botVars, inviteVars, managerVars>>

SpecReaders == InitEnforce /\ [][NextReaders]_vars

----------------------------------------------------------------------------
(* The daemon control interface: OpenConnectServer.Start, Stop and the exit *)
(* watcher goroutine.  Start runs under the mutex in one step; Stop holds   *)
(* the mutex from its check to its return, across the select; the watcher   *)
(* reads s.cmd and waits without the mutex and takes it to log and clear.   *)
(* An exec.Cmd holds a slot of Cmds while s.cmd, a live process or a        *)
(* watcher refers to it.                                                    *)

\* s.cmd != nil && s.cmd.Process != nil
IsRunning(c) == c # 0 /\ proc[c].st \notin {"none", "unstarted"}

\* s.mutex is write-locked: Stop keeps it from its first line to its return
MutexHeld == stopPc = "wait"

\* a nil pointer dereference in a goroutine ends the program
NoPanic == \A p \in Cmds : watcher[p].pc # "panic"

\* os.Process.Signal and Kill fail once the process has been waited for
ProcessDone(c) == proc[c].st = "reaped"

\* the watcher's test: err != nil && ctx.Err() == nil
ReportsErrorIgnoringCtx(err, ctxErr) == err
ReportsError(err, ctxErr) == err /\ ~ctxErr

\* s.cmd after the watcher has logged: s.cmd = nil
WatcherKeepsHandle(c) == c
WatcherHandle(c) == 0

\* s.cmd when Stop returns: nil on the two paths that reach the end,
\* untouched on the two early returns
StopAlwaysClears(ok, c) == 0
StopHandle(ok, c) == IF ok THEN 0 ELSE c

\* nothing refers to the exec.Cmd of slot p any more
Unreferenced(c, pr, wa, p) ==
    /\ c # p
    /\ pr[p].st \in {"unstarted", "exited", "reaped"}
    /\ wa[p].pc \in {"none", "done"}
    /\ \A w \in Cmds : wa[w].pc \in {"waiting", "waited"} => wa[w].target # p

ProcAfter(c, pr, wa) ==
    [p \in Cmds |-> IF Unreferenced(c, pr, wa, p) THEN NoProc ELSE pr[p]]
WatcherAfter(c, pr, wa) ==
    [p \in Cmds |-> IF Unreferenced(c, pr, wa, p) THEN NoWatcher ELSE wa[p]]

\* the slot of the exec.Cmd the next exec.CommandContext creates
FreeSlots == {p \in Cmds : proc[p].st = "none" /\ watcher[p].pc = "none"}
NextCmd == CHOOSE p \in FreeSlots : \A q \in FreeSlots : p <= q

Start(pipesOk, startOk) ==
    /\ NoPanic
    /\ stopPc = "idle"
    /\ FreeSlots # {}
    /\ IF IsRunning(cmd)
       THEN /\ last' = Ret("Start", <<>>, TRUE, "already running")
            /\ UNCHANGED daemonVars
       ELSE LET new == NextCmd
                ok == pipesOk /\ startOk /\ ~ctxCancelled
                pr == [proc EXCEPT ![new].st = IF ok THEN "running" ELSE "unstarted",
                                   ![new].args = StartArgs(routes, blockRoutes)]
                wa == IF ok THEN [watcher EXCEPT ![new].pc = "spawned"] ELSE watcher
            IN /\ cmd' = new
               /\ proc' = ProcAfter(new, pr, wa)
               /\ watcher' = WatcherAfter(new, pr, wa)
               /\ last' = Ret("Start", <<>>, ~ok, IF ok THEN "started" ELSE "failed")
               /\ UNCHANGED <<stopPc, ctxCancelled, crashSeen>>
    /\ UNCHANGED <<storeVars, listVars, tickVars>>

\* Stop up to the select: the check, SIGTERM, the wait goroutine
StopCall ==
    /\ NoPanic
    /\ stopPc = "idle"
    /\ IF cmd = 0 \/ proc[cmd].st = "unstarted"
       THEN /\ last' = Ret("Stop", <<>>, FALSE, "not running")
            /\ UNCHANGED daemonVars
       ELSE IF ProcessDone(cmd)
       THEN /\ last' = Ret("Stop", <<>>, TRUE, "signal failed")
            /\ cmd' = StopHandle(FALSE, cmd)
            /\ proc' = ProcAfter(cmd', proc, watcher)
            /\ watcher' = WatcherAfter(cmd', proc, watcher)
            /\ UNCHANGED <<stopPc, ctxCancelled, crashSeen>>
       ELSE /\ proc' = IF proc[cmd].st = "running"
                       THEN [proc EXCEPT ![cmd].afterStop = TRUE] ELSE proc
            /\ stopPc' = "wait"
            /\ last' = Ret("Stop.signal", <<>>, FALSE, 0)
            /\ UNCHANGED <<cmd, watcher, ctxCancelled, crashSeen>>
    /\ UNCHANGED <<storeVars, listVars, tickVars>>

\* case <-done: Stop's own Wait returned, with the exit status or, when the
\* watcher's Wait took the status first, with an error
StopWaitDone ==
    /\ NoPanic
    /\ stopPc = "wait"
    /\ proc[cmd].st \in {"exited", "reaped"}
    /\ LET pr == [proc EXCEPT ![cmd].st = "reaped"]
       IN /\ cmd' = StopHandle(TRUE, cmd)
          /\ proc' = ProcAfter(cmd', pr, watcher)
          /\ watcher' = WatcherAfter(cmd', pr, watcher)
    /\ stopPc' = "idle"
    /\ last' = Ret("Stop", <<>>, FALSE, "graceful")
    /\ UNCHANGED <<ctxCancelled, crashSeen>>
    /\ UNCHANGED <<storeVars, listVars, tickVars>>

\* the timeout case returning without Kill
StopTimeoutWithoutKill ==
    /\ NoPanic
    /\ stopPc = "wait"
    /\ stopPc' = "idle"
    /\ cmd' = StopHandle(TRUE, cmd)
    /\ proc' = ProcAfter(cmd', proc, watcher)
    /\ watcher' = WatcherAfter(cmd', proc, watcher)
    /\ last' = Ret("Stop", <<>>, FALSE, "killed")
    /\ UNCHANGED <<ctxCancelled, crashSeen>>
    /\ UNCHANGED <<storeVars, listVars, tickVars>>

\* case <-time.After(5 * time.Second): Kill
StopTimeout ==
    /\ NoPanic
    /\ stopPc = "wait"
    /\ stopPc' = "idle"
    /\ LET ok == ~ProcessDone(cmd)
           pr == IF proc[cmd].st = "running"
                 THEN [proc EXCEPT ![cmd].st = "exited", ![cmd].exitErr = TRUE,
                                   ![cmd].afterStop = TRUE]
                 ELSE proc
       IN /\ cmd' = StopHandle(ok, cmd)
          /\ proc' = ProcAfter(cmd', pr, watcher)
          /\ watcher' = WatcherAfter(cmd', pr, watcher)
          /\ last' = Ret("Stop", <<>>, ~ok, IF ok THEN "killed" ELSE "kill failed")
    /\ UNCHANGED <<ctxCancelled, crashSeen>>
    /\ UNCHANGED <<storeVars, listVars, tickVars>>

\* the child process ends, by itself or on a signal it was sent
ProcessExit(p, exitErr) ==
    /\ NoPanic
    /\ proc[p].st = "running"
    /\ LET pr == [proc EXCEPT ![p].st = "exited", ![p].exitErr = exitErr]
       IN /\ proc' = ProcAfter(cmd, pr, watcher)
          /\ watcher' = WatcherAfter(cmd, pr, watcher)
    /\ last' = Ret("exit", <<>>, FALSE, 0)
    /\ UNCHANGED <<cmd, stopPc, ctxCancelled, crashSeen>>
    /\ UNCHANGED <<storeVars, listVars, tickVars>>

\* the watcher evaluates s.cmd of s.cmd.Wait(), without the mutex
WatcherRead(w) ==
    /\ NoPanic
    /\ watcher[w].pc = "spawned"
    /\ watcher' = [watcher EXCEPT ![w] =
                      IF cmd = 0 THEN [pc |-> "panic", target |-> 0, err |-> FALSE]
                      ELSE [pc |-> "waiting", target |-> cmd, err |-> FALSE]]
    /\ last' = Ret("watcher.read", <<>>, cmd = 0, 0)
    /\ UNCHANGED <<cmd, proc, stopPc, ctxCancelled, crashSeen>>
    /\ UNCHANGED <<storeVars, listVars, tickVars>>

\* the watcher's Wait returns: the exit status when it is the first to wait
\* for the process, an error when the process was never started or another
\* Wait has taken the status
WatcherWaitReturn(w) ==
    /\ NoPanic
    /\ watcher[w].pc = "waiting"
    /\ LET t == watcher[w].target
       IN /\ proc[t].st \in {"unstarted", "exited", "reaped"}
          /\ watcher' = [watcher EXCEPT ![w].pc = "waited",
                                        ![w].err = IF proc[t].st = "exited"
                                                   THEN proc[t].exitErr ELSE TRUE]
          /\ proc' = IF proc[t].st = "exited" THEN [proc EXCEPT ![t].st = "reaped"]
                                              ELSE proc
    /\ last' = Ret("watcher.wait", <<>>, FALSE, 0)
    /\ UNCHANGED <<cmd, stopPc, ctxCancelled, crashSeen>>
    /\ UNCHANGED <<storeVars, listVars, tickVars>>

\* the watcher takes the mutex, logs and clears the handle
WatcherReport(w) ==
    /\ NoPanic
    /\ watcher[w].pc = "waited"
    /\ stopPc = "idle"
    /\ LET t == watcher[w].target
           own == t = w
           logged == IF ReportsError(watcher[w].err, ctxCancelled) THEN "error" ELSE "info"
           wa == [watcher EXCEPT ![w] = [pc |-> "done", target |-> 0, err |-> FALSE]]
       IN /\ cmd' = WatcherHandle(cmd)
          /\ proc' = ProcAfter(cmd', proc, wa)
          /\ watcher' = WatcherAfter(cmd', proc, wa)
          /\ crashSeen' = (crashSeen \/ (own /\ ~proc[t].afterStop))
          /\ last' = Ret("watcher.report", <<>>, FALSE,
                         [logged |-> logged, own |-> own, waitErr |-> watcher[w].err,
                          exitErr |-> proc[t].exitErr, afterStop |-> proc[t].afterStop,
                          ctxErr |-> ctxCancelled])
    /\ UNCHANGED <<stopPc, ctxCancelled>>
    /\ UNCHANGED <<storeVars, listVars, tickVars>>

\* the context handed to Start is cancelled
CancelCtx ==
    /\ NoPanic
    /\ ~ctxCancelled
    /\ ctxCancelled' = TRUE
    /\ last' = Ret("cancel", <<>>, FALSE, 0)
    /\ UNCHANGED <<cmd, proc, watcher, stopPc, crashSeen>>
    /\ UNCHANGED <<storeVars, listVars, tickVars>>

\* OpenConnectServer.AddRoute, under the mutex
ServerAddRoute(cidr) ==
    /\ NoPanic
    /\ stopPc = "idle"
    /\ routes' = AddRoute(cidr).list
    /\ last' = Ret("AddRoute", <<cidr>>, AddRoute(cidr).err, InList(routes, cidr))
    /\ UNCHANGED <<blockRoutes, daemonVars, storeVars, tickVars>>

\* OpenConnectServer.RemoveRoute, under the mutex
ServerRemoveRoute(cidr) ==
    /\ NoPanic
    /\ stopPc = "idle"
    /\ routes' = RemoveRoute(cidr)
    /\ last' = Ret("RemoveRoute", <<cidr>>, FALSE, InList(routes, cidr))
    /\ UNCHANGED <<blockRoutes, daemonVars, storeVars, tickVars>>

\* OpenConnectServer.BlockRoute, under the mutex
ServerBlockRoute(cidr) ==
    /\ NoPanic
    /\ stopPc = "idle"
    /\ blockRoutes' = BlockRoute(cidr).list
    /\ last' = Ret("BlockRoute", <<cidr>>, BlockRoute(cidr).err, InList(blockRoutes, cidr))
    /\ UNCHANGED <<routes, daemonVars, storeVars, tickVars>>

\* OpenConnectServer.UnblockRoute, under the mutex
ServerUnblockRoute(cidr) ==
    /\ NoPanic
    /\ stopPc = "idle"
    /\ blockRoutes' = UnblockRoute(cidr)
    /\ last' = Ret("UnblockRoute", <<cidr>>, FALSE, InList(blockRoutes, cidr))
    /\ UNCHANGED <<routes, daemonVars, storeVars, tickVars>>

----------------------------------------------------------------------------
(* Specification of the daemon control interface, with one allowed and one  *)
(* blocked route in its lists.                                              *)

InitControl ==
    /\ InitStore
    /\ routes = <<NetA>>
    /\ blockRoutes = <<NetB>>
    /\ InitTick
    /\ InitDaemon
    /\ InitBot
    /\ InitInvites
    /\ InitManager
    /\ last = Ret("init", <<>>, FALSE, 0)

ControlStep ==
    \/ \E pipesOk \in BOOLEAN, startOk \in BOOLEAN : Start(pipesOk, startOk)
    \/ StopCall
    \/ StopWaitDone
    \/ StopTimeout
    \/ \E p \in Cmds, e \in BOOLEAN : ProcessExit(p, e)
    \/ \E w \in Cmds : WatcherRead(w)
    \/ \E w \in Cmds : WatcherWaitReturn(w)
    \/ \E w \in Cmds : WatcherReport(w)
    \/ CancelCtx

NextControl == ControlStep /\ UNCHANGED <<monitorVars, botVars, inviteVars, managerVars>>

SpecControl == InitControl /\ [][NextControl]_vars

\* the timer of Stop's select fires after the grace period
TimerFires == StopTimeout /\ UNCHANGED <<monitorVars, botVars, inviteVars, managerVars>>

SpecControlLive == InitControl /\ [][NextControl]_vars /\ WF_vars(TimerFires)

----------------------------------------------------------------------------
(* Specification of the route lists of the daemon control interface: the    *)
(* four list mutations, interleaved with Start, Stop and the exit of the    *)
(* child.                                                                   *)

AllowInputs == {NetA, NetAHost, NetBadLen}
BlockInputs == {NetB, NetBadOctet}

InitReload ==
    /\ InitStore
    /\ InitLists
    /\ InitTick
    /\ InitDaemon
    /\ InitBot
    /\ InitInvites
    /\ InitManager
    /\ last = Ret("init", <<>>, FALSE, 0)

ReloadStep ==
    \/ \E c \in AllowInputs : ServerAddRoute(c)
    \/ \E c \in AllowInputs : ServerRemoveRoute(c)
    \/ \E c \in BlockInputs : ServerBlockRoute(c)
    \/ \E c \in BlockInputs : ServerUnblockRoute(c)
    \/ Start(TRUE, TRUE)
    \/ StopCall
    \/ StopWaitDone
    \/ StopTimeout
    \/ \E p \in Cmds : ProcessExit(p, TRUE)

NextReload == ReloadStep /\ UNCHANGED <<monitorVars, botVars, inviteVars, managerVars>>

SpecReload == InitReload /\ [][NextReload]_vars

----------------------------------------------------------------------------
(* monitorTraffic: the select between ctx.Done() and ticker.C around the    *)
(* tick, with the context VPNService.Start also hands to the daemon.  A     *)
(* select with both cases ready takes either.                               *)

\* the ticker puts a tick into ticker.C, which holds one
TickerFires ==
    /\ tickPc # "done"
    /\ ~tickerC
    /\ tickerC' = TRUE
    /\ last' = Ret("ticker", <<>>, FALSE, 0)
    /\ UNCHANGED <<storeVars, listVars, tickVars, daemonVars>>

\* case <-ticker.C: s.updateTrafficStats(ctx)
MonitorSelectTicker(connOk, list) ==
    /\ tickerC
    /\ tickerC' = FALSE
    /\ UpdateTrafficStatsBegin(connOk, list)
    /\ UNCHANGED daemonVars

\* case <-ctx.Done(): return
MonitorSelectDone ==
    /\ tickPc = "idle"
    /\ ctxCancelled
    /\ tickPc' = "done"
    /\ last' = Ret("monitorTraffic.return", <<>>, FALSE, 0)
    /\ UNCHANGED <<traffic, activeConnections, serverConnections, idx, disconnects,
                   completedMaps>>
    /\ UNCHANGED <<storeVars, listVars, daemonVars, monitorVars>>

\* the loop body of the tick; a store call made with a cancelled context fails
MonitorStep(lookupOk, statsOk, stats, logOk, totalOk) ==
    /\ ctxCancelled => ~lookupOk
    /\ UpdateTrafficStatsStep(lookupOk, statsOk, stats, logOk, totalOk)
    /\ UNCHANGED <<daemonVars, monitorVars>>

InitMonitor ==
    /\ InitEnforce

MonitorTrafficStep ==
    \/ TickerFires
    \/ \E ok \in BOOLEAN, list \in SessionLists : MonitorSelectTicker(ok, list)
    \/ MonitorSelectDone
    \/ \E lookupOk \in BOOLEAN, statsOk \in BOOLEAN, stats \in StatsOutputs,
          logOk \in BOOLEAN, totalOk \in BOOLEAN :
           MonitorStep(lookupOk, statsOk, stats, logOk, totalOk)
    \/ UpdateTrafficStatsReturn /\ UNCHANGED <<daemonVars, monitorVars>>
    \/ CancelCtx /\ UNCHANGED monitorVars

NextMonitor == MonitorTrafficStep /\ UNCHANGED <<botVars, inviteVars, managerVars>>

SpecMonitor == InitMonitor /\ [][NextMonitor]_vars

----------------------------------------------------------------------------
(* TelegramBot: every update is handled in a goroutine of its own (go       *)
(* b.handleUpdate), so the store calls of different updates interleave.     *)
(* The users table is keyed here by the Telegram identity, which the        *)
(* schema keeps unique like the row id; a row carries username, role and    *)
(* traffic limit, and UPDATE users writes the whole row it is given.        *)

\* the Telegram identities that write to the bot, and b.admins of the config
TgIds == {1, 2}
Admins == {1}

UsernameOf(tg) == IF tg = 1 THEN "alice" ELSE "bob"

\* PostgresUserRepository.Update: the row of that id is overwritten
RepoUpdateUserOk(table, id) == id \in DOMAIN table
RepoUpdateUser(table, id, row) ==
    IF RepoUpdateUserOk(table, id) THEN [table EXCEPT ![id] = row] ELSE table

\* PostgresUserRepository.Create: username and telegram_id are UNIQUE
RepoCreateUserOk(table, tg, row) ==
    /\ tg \notin DOMAIN table
    /\ \A u \in DOMAIN table : table[u].username # row.username
RepoCreateUser(table, tg, row) ==
    IF RepoCreateUserOk(table, tg, row)
    THEN [u \in DOMAIN table \cup {tg} |-> IF u = tg THEN row ELSE table[u]]
    ELSE table

\* UseInviteCode: the role an invite gives, by the role of its creator
InviteRole(inviterRole) == IF inviterRole = RoleAdmin THEN RoleUser ELSE RoleVassal

\* handleUserCallback: the role after promote and after demote, or "" if refused
PromotedRole(role) ==
    IF role = RoleVassal THEN RoleUser
    ELSE IF role = RoleUser THEN RoleAdmin ELSE ""
DemotedRole(role) ==
    IF role = RoleAdmin THEN RoleUser
    ELSE IF role = RoleUser THEN RoleVassal ELSE ""

\* handleUserCallback: only a sender whose row says admin may manage users
MayManageUsers(user) == user.role = RoleAdmin

HandlerDone(h) == handlers' = [handlers EXCEPT ![h] = IdleHandler]

\* handleMessage / handleCallbackQuery, AuthenticateWithTelegram: the row of
\* the sender is read by GetByTelegramID
AuthenticateRead(h, tg, kind, action, param) ==
    /\ handlers[h].pc = "idle"
    /\ IF tg \in DOMAIN users
       THEN handlers' = [handlers EXCEPT ![h] =
                [pc |-> "authUpdate", kind |-> kind, from |-> tg, user |-> users[tg],
                 action |-> action, param |-> param, target |-> User("", "", 0)]]
       ELSE IF kind = "message"
       THEN handlers' = [handlers EXCEPT ![h] =
                [pc |-> "register", kind |-> kind, from |-> tg, user |-> User("", "", 0),
                 action |-> action, param |-> param, target |-> User("", "", 0)]]
       ELSE HandlerDone(h)
    /\ last' = Ret("AuthenticateWithTelegram.read", <<tg, kind>>, tg \notin DOMAIN users, 0)
    /\ UNCHANGED storeVars

\* AuthenticateWithTelegram: user.LastLoginAt = now; Update(user) writes the
\* row that was read, role included
AuthenticateUpdate(h) ==
    /\ handlers[h].pc = "authUpdate"
    /\ LET hd == handlers[h]
           ok == RepoUpdateUserOk(users, hd.from)
       IN /\ users' = RepoUpdateUser(users, hd.from, hd.user)
          /\ IF ok
             THEN handlers' = [handlers EXCEPT ![h].pc = "dispatch"]
             ELSE HandlerDone(h)
          /\ last' = Ret("AuthenticateWithTelegram.update", <<hd.from, hd.from>>, ~ok, 0)
    /\ UNCHANGED <<routeRows, userRoutes, groupRows, groupItems, userGroups>>

\* handleMessage on ErrUserNotFound, RegisterUserWithTelegram: a row with the
\* role vassal is created, or the row found by now is returned
RegisterUserWithTelegram(h) ==
    /\ handlers[h].pc = "register"
    /\ LET hd == handlers[h]
           row == User(UsernameOf(hd.from), RoleVassal, 0)
           existing == hd.from \in DOMAIN users
           ok == existing \/ RepoCreateUserOk(users, hd.from, row)
           user == IF existing THEN users[hd.from] ELSE row
       IN /\ users' = IF existing THEN users ELSE RepoCreateUser(users, hd.from, row)
          /\ IF ~ok
             THEN HandlerDone(h)
             ELSE IF hd.from \in Admins
             THEN handlers' = [handlers EXCEPT ![h].pc = "setAdmin", ![h].user = user]
             ELSE HandlerDone(h)
          /\ last' = Ret("RegisterUserWithTelegram", <<hd.from, hd.from>>, ~ok, 0)
    /\ UNCHANGED <<routeRows, userRoutes, groupRows, groupItems, userGroups>>

\* handleMessage: the sender is one of b.admins: user.Role = RoleAdmin,
\* updateUserRole(user)
SetAdminRole(h) ==
    /\ handlers[h].pc = "setAdmin"
    /\ LET hd == handlers[h]
           row == [hd.user EXCEPT !.role = RoleAdmin]
       IN /\ users' = RepoUpdateUser(users, hd.from, row)
          /\ last' = Ret("handleMessage.setAdmin", <<hd.from, hd.from>>,
                         ~RepoUpdateUserOk(users, hd.from), 0)
    /\ HandlerDone(h)
    /\ UNCHANGED <<routeRows, userRoutes, groupRows, groupItems, userGroups>>

\* handleCommand, /help: sendHelp makes no store call
HandleOtherCommand(h) ==
    /\ handlers[h].pc = "dispatch"
    /\ handlers[h].kind = "message"
    /\ handlers[h].action # "invite"
    /\ HandlerDone(h)
    /\ last' = Ret("handleCommand", <<handlers[h].from, handlers[h].from>>, FALSE, 0)
    /\ UNCHANGED storeVars

\* handleInviteCommand: UseInviteCode on a row with the identity of the
\* sender, whose Create meets the UNIQUE columns; past it, the role of the
\* invite is written to the sender
HandleInviteCommand(h, valid, inviter) ==
    /\ handlers[h].pc = "dispatch"
    /\ handlers[h].kind = "message"
    /\ handlers[h].action = "invite"
    /\ inviter \in DOMAIN users
    /\ LET hd == handlers[h]
           tempUser == User(hd.user.username, InviteRole(users[inviter].role), 0)
           ok == valid /\ RepoCreateUserOk(users, hd.from, tempUser)
           created == RepoCreateUser(users, hd.from, tempUser)
           row == [hd.user EXCEPT !.role = tempUser.role]
       IN /\ users' = IF ok THEN RepoUpdateUser(created, hd.from, row) ELSE users
          /\ last' = Ret("handleInviteCommand", <<hd.from, hd.from>>, ~ok, tempUser.role)
    /\ HandlerDone(h)
    /\ UNCHANGED <<routeRows, userRoutes, groupRows, groupItems, userGroups>>

\* handleUserCallback: the role check on the row of the sender, then
\* GetByID(param) reads the target
HandleUserCallback(h) ==
    /\ handlers[h].pc = "dispatch"
    /\ handlers[h].kind = "callback"
    /\ LET hd == handlers[h]
           refused == ~MayManageUsers(hd.user)
           found == hd.param \in DOMAIN users
       IN /\ IF ~refused /\ found
             THEN handlers' = [handlers EXCEPT ![h].pc = "roleUpdate",
                                               ![h].target = users[hd.param]]
             ELSE HandlerDone(h)
          /\ last' = Ret("handleUserCallback", <<hd.from, hd.param>>,
                         refused \/ ~found, refused)
    /\ UNCHANGED storeVars

\* handleUserCallback, promote and demote: the new role of the target row,
\* then updateUserRole(targetUser)
HandleUserCallbackUpdate(h) ==
    /\ handlers[h].pc = "roleUpdate"
    /\ LET hd == handlers[h]
           role == IF hd.action = "promote" THEN PromotedRole(hd.target.role)
                   ELSE DemotedRole(hd.target.role)
           row == [hd.target EXCEPT !.role = role]
           ok == role # "" /\ RepoUpdateUserOk(users, hd.param)
       IN /\ users' = IF ok THEN RepoUpdateUser(users, hd.param, row) ELSE users
          /\ last' = Ret("handleUserCallback." \o hd.action, <<hd.from, hd.param>>, ~ok, role)
    /\ HandlerDone(h)
    /\ UNCHANGED <<routeRows, userRoutes, groupRows, groupItems, userGroups>>

MessageActions == {"invite", "help"}
CallbackActions == {"promote", "demote"}

\* a fresh database: no user is stored
InitRoles ==
    /\ users = <<>>
    /\ routeRows = <<>>
    /\ userRoutes = {}
    /\ groupRows = {}
    /\ groupItems = {}
    /\ userGroups = {}
    /\ InitLists
    /\ InitTick
    /\ InitDaemon
    /\ InitBot
    /\ InitInvites
    /\ InitManager
    /\ last = Ret("init", <<>>, FALSE, 0)

RolesStep ==
    \/ \E h \in Handlers, tg \in TgIds, a \in MessageActions :
           AuthenticateRead(h, tg, "message", a, 0)
    \/ \E h \in Handlers, tg \in TgIds, a \in CallbackActions, param \in TgIds :
           AuthenticateRead(h, tg, "callback", a, param)
    \/ \E h \in Handlers : AuthenticateUpdate(h)
    \/ \E h \in Handlers : RegisterUserWithTelegram(h)
    \/ \E h \in Handlers : SetAdminRole(h)
    \/ \E h \in Handlers : HandleOtherCommand(h)
    \/ \E h \in Handlers, valid \in BOOLEAN, inviter \in TgIds :
           HandleInviteCommand(h, valid, inviter)
    \/ \E h \in Handlers : HandleUserCallback(h)
    \/ \E h \in Handlers : HandleUserCallbackUpdate(h)

NextRoles ==
    RolesStep /\ UNCHANGED <<listVars, tickVars, daemonVars, monitorVars, inviteVars,
                             managerVars>>

SpecRoles == InitRoles /\ [][NextRoles]_vars

----------------------------------------------------------------------------
(* InviteService.  Every bot update and every API request runs in a         *)
(* goroutine of its own, so the store calls of two calls interleave; a call *)
(* is taken one store statement at a time.  An invite row keeps createdBy,  *)
(* usedBy (here the username of the redeemer, "" for the 0 of an unused     *)
(* code) and expired; a row removed by ON DELETE CASCADE stays as a         *)
(* tombstone so that ids are not given twice.  The users table is keyed by  *)
(* the Telegram identity as above; the rows RegisterUser of the API creates *)
(* carry the identity 0.                                                    *)

InviteRow(createdBy) ==
    [createdBy |-> createdBy, usedBy |-> "", expired |-> FALSE, deleted |-> FALSE]

\* InviteCode.IsValid: !Expired && UsedBy == 0 (the expiry date is not reached)
IsValid(invite) == ~invite.expired /\ invite.usedBy = ""

\* SELECT * FROM invite_codes WHERE code = $1
RepoGetByCode(code) == {i \in 1..Len(invites) : i = code /\ ~invites[i].deleted}

\* SELECT COUNT(*) ... WHERE created_by = $1 AND expired = false AND used_by = 0
CountActiveByCreator(table, creatorID) ==
    Cardinality({i \in 1..Len(table) :
                    /\ ~table[i].deleted
                    /\ table[i].createdBy = creatorID
                    /\ ~table[i].expired
                    /\ table[i].usedBy = ""})

\* UseInviteCode up to its Create: GetByCode, IsValid, GetByID of the inviter,
\* and the role of the new user
UseInviteCodeRead(c, code, key, username) ==
    /\ calls[c].pc = "idle"
    /\ LET found == RepoGetByCode(code) # {}
           valid == found /\ IsValid(invites[code])
           ok == valid /\ invites[code].createdBy \in DOMAIN users
       IN IF ok
          THEN /\ calls' = [calls EXCEPT ![c] =
                      [pc |-> "create", code |-> code, key |-> key, username |-> username,
                       role |-> InviteRole(users[invites[code].createdBy].role),
                       creator |-> invites[code].createdBy]]
               /\ last' = Ret("UseInviteCode.read", <<code, key>>, FALSE, 0)
          ELSE /\ calls' = calls
               /\ last' = Ret("UseInviteCode", <<code, key>>, TRUE,
                              IF ~found THEN "invalid invite code"
                              ELSE IF ~valid THEN "expired or already used"
                              ELSE "failed to get inviter")
    /\ UNCHANGED <<users, invites, redemptions>>

\* UseInviteCode: repo.User().Create(newUser); invited_by refers to a user
UseInviteCodeCreate(c) ==
    /\ calls[c].pc = "create"
    /\ LET cl == calls[c]
           row == User(cl.username, cl.role, 0)
           ok == RepoCreateUserOk(users, cl.key, row) /\ cl.creator \in DOMAIN users
       IN IF ok
          THEN /\ users' = RepoCreateUser(users, cl.key, row)
               /\ redemptions' = redemptions \cup {<<cl.code, cl.key>>}
               /\ calls' = [calls EXCEPT ![c].pc = "update"]
               /\ last' = Ret("UseInviteCode.create", <<cl.code, cl.key>>, FALSE, 0)
          ELSE /\ calls' = [calls EXCEPT ![c] = IdleCall]
               /\ last' = Ret("UseInviteCode", <<cl.code, cl.key>>, TRUE,
                              "failed to create user")
               /\ UNCHANGED <<users, redemptions>>
    /\ UNCHANGED invites

\* UseInviteCode: UsedBy, UsedAt, Expired = true; repo.Invite().Update(invite)
UseInviteCodeUpdate(c) ==
    /\ calls[c].pc = "update"
    /\ LET cl == calls[c]
           ok == RepoGetByCode(cl.code) # {}
       IN /\ invites' = IF ok
                        THEN [invites EXCEPT ![cl.code].usedBy = cl.username,
                                             ![cl.code].expired = TRUE]
                        ELSE invites
          /\ last' = Ret("UseInviteCode", <<cl.code, cl.key>>, ~ok,
                         IF ok THEN "used" ELSE "failed to update invite code")
    /\ calls' = [calls EXCEPT ![c] = IdleCall]
    /\ UNCHANGED <<users, redemptions>>

\* handleUserCallback, delete, by a sender whose row says admin:
\* DELETE FROM users, and the invite codes of the user go with the row
DeleteUser(actor, target) ==
    /\ actor \in DOMAIN users
    /\ MayManageUsers(users[actor])
    /\ target \in DOMAIN users
    /\ users' = [u \in DOMAIN users \ {target} |-> users[u]]
    /\ invites' = [i \in 1..Len(invites) |->
                      IF invites[i].createdBy = target
                      THEN [invites[i] EXCEPT !.deleted = TRUE] ELSE invites[i]]
    /\ last' = Ret("handleUserCallback.delete", <<actor, target>>, FALSE, 0)
    /\ UNCHANGED <<calls, redemptions>>

\* GenerateInviteCode up to its Create: GetByID, the role's MaxInvites, and
\* CountActiveByCreator for a bounded role
GenerateInviteCodeRead(c, userID) ==
    /\ calls[c].pc = "idle"
    /\ LET found == userID \in DOMAIN users
           max == GetRoleLimits(users[userID].role).MaxInvites
           ok == /\ found
                 /\ max # 0
                 /\ max > 0 => CountActiveByCreator(invites, userID) < max
       IN IF ok
          THEN /\ calls' = [calls EXCEPT ![c] =
                      [IdleCall EXCEPT !.pc = "insert", !.creator = userID]]
               /\ last' = Ret("GenerateInviteCode.read", <<userID>>, FALSE, 0)
          ELSE /\ calls' = calls
               /\ last' = Ret("GenerateInviteCode", <<userID>>, TRUE,
                              IF ~found THEN "failed to get user"
                              ELSE IF max = 0 THEN "no permission"
                              ELSE "invite code limit reached")
    /\ UNCHANGED <<users, invites, redemptions>>

\* GenerateInviteCode: repo.Invite().Create(invite); created_by refers to a user
GenerateInviteCodeCreate(c) ==
    /\ calls[c].pc = "insert"
    /\ LET ok == calls[c].creator \in DOMAIN users
       IN /\ invites' = IF ok THEN Append(invites, InviteRow(calls[c].creator)) ELSE invites
          /\ last' = Ret("GenerateInviteCode", <<calls[c].creator>>, ~ok, Len(invites'))
    /\ calls' = [calls EXCEPT ![c] = IdleCall]
    /\ UNCHANGED <<users, redemptions>>

----------------------------------------------------------------------------
(* Specification of invite redemption: alice is admin and has generated one *)
(* code, bob has registered through the bot; the code is redeemed through   *)
(* the API (RegisterUser, a username of the request) and through /invite of *)
(* the bot (the identity and username of a sender who was found in the      *)
(* store when the update came in), while alice deletes users.               *)

ApiUsernames == {"carol", "bob"}
RedeemCodes == {1, 2}

InitRedeem ==
    /\ users = <<User("alice", RoleAdmin, 0), User("bob", RoleVassal, 0)>>
    /\ routeRows = <<>>
    /\ userRoutes = {}
    /\ groupRows = {}
    /\ groupItems = {}
    /\ userGroups = {}
    /\ InitLists
    /\ InitTick
    /\ InitDaemon
    /\ InitBot
    /\ invites = <<InviteRow(1)>>
    /\ calls = [c \in Calls |-> IdleCall]
    /\ redemptions = {}
    /\ InitManager
    /\ last = Ret("init", <<>>, FALSE, 0)

RedeemStep ==
    \/ \E c \in Calls, code \in RedeemCodes, name \in ApiUsernames :
           UseInviteCodeRead(c, code, 0, name)
    \/ \E c \in Calls, code \in RedeemCodes, tg \in DOMAIN users \ {0} :
           UseInviteCodeRead(c, code, tg, users[tg].username)
    \/ \E c \in Calls : UseInviteCodeCreate(c)
    \/ \E c \in Calls : UseInviteCodeUpdate(c)
    \/ \E actor \in TgIds, target \in TgIds : DeleteUser(actor, target)

NextRedeem ==
    RedeemStep /\ UNCHANGED <<routeRows, userRoutes, groupRows, groupItems, userGroups,
                              listVars, tickVars, daemonVars, monitorVars, botVars,
                              managerVars>>

SpecRedeem == InitRedeem /\ [][NextRedeem]_vars

----------------------------------------------------------------------------
(* Specification of invite generation: alice has the role user, bob the     *)
(* role vassal, and both send /generate, whose calls run concurrently.      *)

InitQuota ==
    /\ users = <<User("alice", RoleUser, 0), User("bob", RoleVassal, 0)>>
    /\ routeRows = <<>>
    /\ userRoutes = {}
    /\ groupRows = {}
    /\ groupItems = {}
    /\ userGroups = {}
    /\ InitLists
    /\ InitTick
    /\ InitDaemon
    /\ InitBot
    /\ InitInvites
    /\ InitManager
    /\ last = Ret("init", <<>>, FALSE, 0)

MaxInviteRows == 6

\* the clock passes a code's expires_at: the code is no longer active
InviteExpires(i) ==
    /\ ~invites[i].expired
    /\ invites' = [invites EXCEPT ![i].expired = TRUE]
    /\ last' = Ret("InviteExpires", <<i>>, FALSE, 0)
    /\ UNCHANGED <<users, calls, redemptions>>

QuotaStep ==
    \/ \E c \in Calls, u \in TgIds :
           Len(invites) < MaxInviteRows /\ GenerateInviteCodeRead(c, u)
    \/ \E c \in Calls : GenerateInviteCodeCreate(c)
    \/ \E i \in 1..Len(invites) : InviteExpires(i)

NextQuota ==
    QuotaStep /\ UNCHANGED <<routeRows, userRoutes, groupRows, groupItems, userGroups,
                             listVars, tickVars, daemonVars, monitorVars, botVars,
                             managerVars>>

SpecQuota == InitQuota /\ [][NextQuota]_vars

----------------------------------------------------------------------------
(* The standalone process Manager. manager.cmd is the exec.Cmd the field    *)
(* m.cmd refers to (0: nil); child[p] is the state of the operating-system  *)
(* process of the command p: "none" (not started), "alive", "signalled"     *)
(* (alive, SIGTERM delivered) or "exited"; watcher[p] is the goroutine the  *)
(* Start that launched p has spawned, and the command it waits on.          *)

StartOutcomes == {"ok", "config", "stdout", "stderr", "start"}

AliveChildren == {p \in ManagerCmds : manager.child[p] \in {"alive", "signalled"}}

\* a command object no process and no goroutine refers to any more
FreshCmds ==
    {p \in ManagerCmds : /\ manager.child[p] \in {"none", "exited"}
                         /\ manager.watcher[p].pc \in {"none", "done"}
                         /\ \A q \in ManagerCmds :
                                manager.watcher[q].pc \in {"none", "done"}
                                \/ manager.watcher[q].cmd # p}

StartError(outcome) ==
    CASE outcome = "config" -> "Failed to generate config"
      [] outcome = "stdout" -> "Failed to get stdout pipe"
      [] outcome = "stderr" -> "Failed to get stderr pipe"
      [] outcome = "start" -> "Failed to start OpenConnect"
      [] OTHER -> ""

\* what Start does once it has passed the running test
StartLaunch(p, outcome) ==
    IF outcome = "config"
    THEN /\ manager' = manager
         /\ last' = Ret("Manager.Start", <<p>>, TRUE, StartError(outcome))
    ELSE IF outcome # "ok"
    THEN /\ manager' = [manager EXCEPT !.cmd = p, !.child[p] = "none",
                                      !.watcher[p] = [pc |-> "none", cmd |-> 0]]
         /\ last' = Ret("Manager.Start", <<p>>, TRUE, StartError(outcome))
    ELSE /\ manager' = [manager EXCEPT !.cmd = p, !.child[p] = "alive",
                                      !.running = TRUE,
                                      !.watcher[p] = [pc |-> "spawned", cmd |-> 0]]
         /\ last' = Ret("Manager.Start", <<p>>, FALSE, "")

ManagerStartIgnoringRunning(p, outcome) ==
    /\ p \in FreshCmds
    /\ StartLaunch(p, outcome)

\* Manager.Start, under m.mutex
ManagerStart(p, outcome) ==
    /\ p \in FreshCmds
    /\ IF manager.running
       THEN /\ manager' = manager
            /\ last' = Ret("Manager.Start", <<p>>, TRUE, "Process already running")
       ELSE StartLaunch(p, outcome)

\* Manager.Stop, under m.mutex: SIGTERM to m.cmd.Process, Kill when that fails
ManagerStop(sigOk, killOk) ==
    IF ~manager.running
    THEN /\ manager' = manager
         /\ last' = Ret("Manager.Stop", <<>>, TRUE, "Process not running")
    ELSE LET p == manager.cmd
             alive == p \in AliveChildren
         IN IF sigOk
            THEN /\ manager' = IF alive THEN [manager EXCEPT !.child[p] = "signalled"]
                               ELSE manager
                 /\ last' = Ret("Manager.Stop", <<>>, FALSE, "")
            ELSE IF killOk
            THEN /\ manager' = IF alive THEN [manager EXCEPT !.child[p] = "exited"]
                               ELSE manager
                 /\ last' = Ret("Manager.Stop", <<>>, FALSE, "")
            ELSE /\ manager' = manager
                 /\ last' = Ret("Manager.Stop", <<>>, TRUE, "Failed to kill process")

\* Manager.IsRunning
ManagerIsRunning ==
    /\ manager' = manager
    /\ last' = Ret("Manager.IsRunning", <<>>, FALSE, manager.running)

\* the child process ends, by itself or after SIGTERM
ChildExits(p) ==
    /\ p \in AliveChildren
    /\ manager' = [manager EXCEPT !.child[p] = "exited"]
    /\ last' = Ret("ChildExits", <<p>>, FALSE, 0)

\* the watcher goroutine starts: it evaluates m.cmd and calls Wait on it
WatcherBegin(w) ==
    /\ manager.watcher[w].pc = "spawned"
    /\ manager' = [manager EXCEPT !.watcher[w] = [pc |-> "waiting", cmd |-> manager.cmd]]
    /\ last' = Ret("Watcher.begin", <<w>>, FALSE, manager.cmd)

\* m.cmd.Wait() returns: the command has exited (or was never started)
WatcherWait(w) ==
    /\ manager.watcher[w].pc = "waiting"
    /\ manager.child[manager.watcher[w].cmd] \in {"exited", "none"}
    /\ manager' = [manager EXCEPT !.watcher[w].pc = "reaped"]
    /\ last' = Ret("Watcher.wait", <<w>>, manager.child[manager.watcher[w].cmd] = "none", 0)

\* the watcher takes m.mutex and clears the flag
WatcherClear(w) ==
    /\ manager.watcher[w].pc = "reaped"
    /\ manager' = [manager EXCEPT !.running = FALSE, !.watcher[w].pc = "done"]
    /\ last' = Ret("Watcher.clear", <<w>>, FALSE, 0)

InitManagerSpec ==
    /\ InitStore
    /\ InitLists
    /\ InitTick
    /\ InitDaemon
    /\ InitBot
    /\ InitInvites
    /\ InitManager
    /\ last = Ret("init", <<>>, FALSE, 0)

ManagerStep ==
    \/ \E p \in ManagerCmds, outcome \in StartOutcomes : ManagerStart(p, outcome)
    \/ \E sigOk \in BOOLEAN, killOk \in BOOLEAN : ManagerStop(sigOk, killOk)
    \/ ManagerIsRunning
    \/ \E p \in ManagerCmds : ChildExits(p)
    \/ \E w \in ManagerCmds : WatcherBegin(w)
    \/ \E w \in ManagerCmds : WatcherWait(w)
    \/ \E w \in ManagerCmds : WatcherClear(w)

NextManager ==
    ManagerStep /\ UNCHANGED <<storeVars, listVars, tickVars, daemonVars, monitorVars,
                               botVars, inviteVars>>

SpecManager == InitManagerSpec /\ [][NextManager]_vars

----------------------------------------------------------------------------
(* Properties of the route resolver (SpecRoutes) and of route creation      *)
(* (SpecCreate).                                                            *)

ResolveReturned == last.op = "GetUserRoutes"
ResolvedUser == last.arg[1]
ResolveFail == last.arg[2]

\* the member routes of the user's groups, group by group, except group skip
GroupRoutesExcept(u, skip) ==
    LET gs == RepoGetUserGroups(u)
        F[i \in 0..Len(gs)] ==
            IF i = 0 THEN <<>>
            ELSE IF gs[i] = skip THEN F[i - 1]
            ELSE F[i - 1] \o RepoGetRoutesInGroup(gs[i])
    IN F[Len(gs)]

GroupRoutesOf(u) == GroupRoutesExcept(u, 0)

Occurrences(list, r) == Cardinality({i \in 1..Len(list) : list[i].id = r})

\* C2: a vassal with no individually assigned route and at least one
\* group-assigned route gets the group routes followed by every default-typed
\* route (the fallback looks at the individual routes only).
C2_FallbackOnIndividualRoutesOnly ==
    (/\ ResolveReturned
     /\ ResolveFail = NoFail
     /\ ResolvedUser \in DOMAIN users
     /\ users[ResolvedUser].role = RoleVassal
     /\ Len(RepoGetUserRoutes(ResolvedUser)) = 0
     /\ Len(GroupRoutesOf(ResolvedUser)) >= 1)
    => /\ ~last.err
       /\ last.out.list = GroupRoutesOf(ResolvedUser) \o RepoListRoutes(RouteTypeDefault)

\* the store read named by the call's fail input was made, and failed
ReadFailed ==
    /\ ResolveReturned
    /\ ResolvedUser \in DOMAIN users
    /\ \/ ResolveFail[1] \in {"user", "routes", "groups"}
       \/ /\ ResolveFail[1] = "group"
          /\ <<ResolvedUser, ResolveFail[2]>> \in userGroups
       \/ /\ ResolveFail[1] = "defaults"
          /\ users[ResolvedUser].role = RoleVassal
          /\ Len(RepoGetUserRoutes(ResolvedUser)) = 0
          /\ Len(GroupRoutesOf(ResolvedUser)) = 0

\* C3 as claimed: whichever store read fails, the resolver returns a nil list
\* and an error.
C3_AnyFailedReadReturnsNilAndError ==
    ReadFailed => (last.err /\ last.out.isNil /\ last.out.list = <<>>)

\* what the resolver returns when only the member routes of group g fail
ListSkipping(u, g) ==
    LET kept == RepoGetUserRoutes(u) \o GroupRoutesExcept(u, g)
    IN IF users[u].role = RoleVassal /\ kept = <<>>
       THEN kept \o RepoListRoutes(RouteTypeDefault)
       ELSE kept

\* C3 amended: a failed read of the user, of the individual routes, of the
\* user's groups or of the default routes returns a nil list and an error; a
\* failed read of one group's member routes is skipped, and the call returns
\* the list without that group's routes and no error.
C3_FailedReadNilExceptGroupSkipped ==
    ReadFailed =>
        IF ResolveFail[1] = "group"
        THEN /\ ~last.err
             /\ ~last.out.isNil
             /\ last.out.list = ListSkipping(ResolvedUser, ResolveFail[2])
        ELSE last.err /\ last.out.isNil /\ last.out.list = <<>>

\* C3 witness: the member routes of an assigned, non-empty group could not be
\* read and the call returned the user's individual routes.
C3_Witness ==
    /\ ReadFailed
    /\ ResolveFail[1] = "group"
    /\ Len(RepoGetRoutesInGroup(ResolveFail[2])) >= 1
    /\ Len(last.out.list) >= 1

\* C5: a route whose user-route edge is stored with enabled = FALSE is not
\* returned as an individually assigned route: it occurs in the result at most
\* once per assigned group holding it, and once more as a vassal's default.
C5_DisabledEdgeNotReturned ==
    (ResolveReturned /\ ~last.err /\ ResolveFail = NoFail) =>
        \A r \in RouteIds :
            <<ResolvedUser, r, FALSE>> \in userRoutes =>
                Occurrences(last.out.list, r) <=
                    Occurrences(GroupRoutesOf(ResolvedUser), r)
                    + (IF users[ResolvedUser].role = RoleVassal
                          /\ routeRows[r].type = RouteTypeDefault THEN 1 ELSE 0)

IsCanonicalCIDR(s) == CIDRSyntaxOk(s) /\ Masked(s) = s

\* C6: every row of routes written by a CreateRoute holds a network that
\* parses and is in masked form, and a CreateRoute given a malformed CIDR
\* returns an error.
C6_StoredNetworksCanonical ==
    /\ \A r \in RouteIds : IsCanonicalCIDR(routeRows[r].network)
    /\ (last.op \in {"VPNCreateRoute", "RouteServiceCreateRoute"}
        /\ ~CIDRSyntaxOk(last.arg[1])) => last.err


----------------------------------------------------------------------------
(* Properties of the enforcement loop, SpecEnforce.                         *)

\* the transition is one pass of the loop body
IsLoopStep == tickPc = "loop" /\ idx' = idx + 1

\* the state follows a pass of the loop body whose stats were read
StepSampled == last.op = "updateTrafficStats.step" /\ last.out.sampled

\* the sum of the stored samples of a user
StoredTotal(rows, userID) ==
    LET sum[i \in 0..Len(rows)] ==
            IF i = 0 THEN 0
            ELSE sum[i - 1] + (IF rows[i].userId = userID THEN rows[i].bytes ELSE 0)
    IN sum[Len(rows)]

\* the number of DisconnectUser(username) calls of the tick
CallsOf(username) ==
    Cardinality({i \in 1..Len(disconnects) : disconnects[i] = username})

\* C1 (as stated): within a tick, for an identifier that resolved to a user
\* and whose sample was taken, DisconnectUser(identifier) has been called
\* exactly once when trafficLimit > 0 and the stored total is strictly
\* greater than the limit, and not at all when trafficLimit = 0.
C1_DisconnectExactlyOnce ==
    StepSampled =>
        LET username == last.arg[1]
            limit == users[last.out.userId].trafficLimit
            total == StoredTotal(traffic, last.out.userId)
        IN /\ (limit > 0 /\ total > limit) => CallsOf(username) = 1
           /\ limit = 0 => CallsOf(username) = 0

\* C1 (amended): each pass of the loop for an identifier that resolved to a
\* user and whose sample was taken makes exactly one DisconnectUser call for
\* it when trafficLimit > 0, the stored total was read and is strictly
\* greater than the limit; it makes none when the total is not greater, when
\* the total could not be read, or when trafficLimit = 0.
C1_DisconnectOncePerPassWhenTotalRead ==
    [][ (IsLoopStep /\ last'.out.sampled) =>
           LET username == last'.arg[1]
               limit == users[last'.out.userId].trafficLimit
               total == StoredTotal(traffic', last'.out.userId)
           IN disconnects' =
                  IF limit > 0 /\ last'.out.totalRead /\ total > limit
                  THEN Append(disconnects, username)
                  ELSE disconnects ]_vars

\* a pass read the total of a user over the limit and disconnected the user
C1_Witness ==
    /\ StepSampled
    /\ last.out.totalRead
    /\ StoredTotal(traffic, last.out.userId) > users[last.out.userId].trafficLimit
    /\ disconnects # <<>>
    /\ disconnects[Len(disconnects)] = last.arg[1]

IsPrefix(a, b) == Len(a) <= Len(b) /\ SubSeq(b, 1, Len(a)) = a

\* the sample a pass of the loop hands to LogTraffic
SampleOf(out) == [userId |-> out.userId, bytes |-> out.bytesIn + out.bytesOut]

\* C4 (as stated): every pass of the loop for an identifier that resolved to
\* a user and whose stats were read stores exactly one new sample with
\* bytes = bytesIn + bytesOut, and the stored samples only grow.
C4_OneSamplePerSampledIdentifier ==
    [][ /\ (IsLoopStep /\ last'.out.sampled) =>
               traffic' = Append(traffic, SampleOf(last'.out))
        /\ IsPrefix(traffic, traffic') ]_vars

\* C4 (amended): a pass of the loop stores exactly one new sample, with
\* bytes = bytesIn + bytesOut, when the identifier resolved to a user, the
\* stats were read and the insert succeeded; it stores nothing otherwise;
\* no step of a tick modifies or removes a stored sample.
C4_OneSamplePerLoggedPass ==
    [][ /\ IsLoopStep =>
               traffic' = IF last'.out.sampled /\ last'.out.logged
                          THEN Append(traffic, SampleOf(last'.out))
                          ELSE traffic
        /\ IsPrefix(traffic, traffic') ]_vars

\* a second sample of RX 1000, TX 2000 was stored after an earlier one
C4_Witness ==
    /\ StepSampled
    /\ last.out.logged
    /\ last.out.bytesIn = 1000 /\ last.out.bytesOut = 2000
    /\ Len(traffic) >= 2
    /\ traffic[Len(traffic)] = [userId |-> last.out.userId, bytes |-> 3000]


----------------------------------------------------------------------------
(* Properties of the daemon control interface, SpecControl.                 *)

\* the step is a return of Stop on one of the four paths past its check
StopPaths == {"graceful", "killed", "signal failed", "kill failed"}

\* C7 (as stated): when Stop returns on any of its paths (graceful exit,
\* force-kill, failure to signal, failure to kill) the handle is nil; Stop
\* on an interface that is not running changes nothing and returns no error.
C7_StopAlwaysClearsHandle ==
    [][ last'.op = "Stop" =>
           /\ last'.out \in StopPaths => cmd' = 0
           /\ last'.out = "not running" =>
                  ~last'.err /\ UNCHANGED <<daemonVars, listVars>> ]_vars

\* C7 (amended): when Stop returns without error (graceful exit or
\* force-kill) the handle is nil; when it fails to signal or to kill it
\* returns the error and leaves the handle as it was, still set; Stop on an
\* interface that is not running changes nothing and returns no error.
C7_StopClearsHandleUnlessItFails ==
    [][ last'.op = "Stop" =>
           /\ last'.out \in {"graceful", "killed"} => ~last'.err /\ cmd' = 0
           /\ last'.out \in {"signal failed", "kill failed"} =>
                  last'.err /\ cmd' = cmd /\ cmd # 0
           /\ last'.out = "not running" =>
                  ~last'.err /\ UNCHANGED <<daemonVars, listVars>> ]_vars

\* Stop has returned the error of Kill and the handle is still set
C7_Witness ==
    /\ last.op = "Stop"
    /\ last.out = "kill failed"
    /\ last.err
    /\ cmd # 0

\* a child process some Start spawned is alive
DaemonAlive == \E p \in Cmds : proc[p].st = "running"

\* C8 (as stated): Start called while the daemon is running fails with an
\* error, spawns no second child and leaves the handle and the allow and
\* block lists unchanged.
C8_StartWhileRunningFails ==
    [][ (last'.op = "Start" /\ DaemonAlive) =>
           last'.err /\ UNCHANGED <<daemonVars, listVars>> ]_vars

\* C9 (as stated): once a watcher has handled an exit of the child that no
\* stop had requested, the interface is Crashed for good: no later Start
\* brings it back to running.
C9_CrashedIsAbsorbing ==
    [][ crashSeen => ~(last'.op = "Start" /\ last'.out = "started") ]_vars

\* C9 (amended): the watcher that handles an exit of the child, requested or
\* not, logs and sets the handle to nil, the state Stop leaves; no Crashed
\* state is kept, and a later Start is refused as already running only when
\* the handle is set with a process.
C9_ExitLeavesStopped ==
    [][ /\ last'.op = "watcher.report" => cmd' = 0
        /\ (last'.op = "Start" /\ last'.out = "already running") => IsRunning(cmd)
        /\ (last'.op = "Start" /\ ~IsRunning(cmd)) => cmd' # 0 /\ cmd' # cmd ]_vars

\* after a crash was handled a Start has spawned a child that is running
C9_Witness ==
    /\ crashSeen
    /\ last.op = "Start"
    /\ last.out = "started"
    /\ cmd # 0
    /\ proc[cmd].st = "running"

\* the state follows the report of a watcher on the exit of its own child
OwnExitReported == last.op = "watcher.report" /\ last.out.own

\* C10 (as stated): the watcher logs the exit of its child as an error if
\* and only if no stop had been requested before the exit.
C10_ErrorIffNoStopRequested ==
    OwnExitReported => (last.out.logged = "error" <=> ~last.out.afterStop)

\* C10 (amended): the watcher logs the exit as an error if and only if its
\* Wait returned an error and the context of Start is not cancelled; a
\* requested stop does not silence it, and a clean exit is logged as info.
C10_ErrorIffWaitErrorAndContextAlive ==
    /\ last.op = "watcher.report" =>
           (last.out.logged = "error" <=> (last.out.waitErr /\ ~last.out.ctxErr))
    /\ (OwnExitReported /\ ~last.out.waitErr) => ~last.out.exitErr

\* an exit that followed a requested stop was logged as an error
C10_Witness ==
    /\ OwnExitReported
    /\ last.out.afterStop
    /\ last.out.logged = "error"


----------------------------------------------------------------------------
(* Properties of the route lists, SpecReload.                               *)

RouteOps == {"AddRoute", "RemoveRoute", "BlockRoute", "UnblockRoute"}

\* C11: AddRoute, RemoveRoute, BlockRoute and UnblockRoute change neither the
\* handle nor any child process; the arguments of a child are the allow and
\* block lists as they were at its Start, one route= per allowed and one
\* no-route= per blocked entry, and stay so while it runs; only a new Start
\* passes the current lists.
C11_MutationsDoNotReloadRunningDaemon ==
    [][ /\ last'.op \in RouteOps => UNCHANGED daemonVars
        /\ (last'.op = "Start" /\ last'.out = "started") =>
               /\ proc'[cmd'].args.route = routes
               /\ proc'[cmd'].args.noRoute = blockRoutes
        /\ \A p \in Cmds : (proc[p].st = "running" /\ proc'[p].st = "running") =>
               proc'[p].args = proc[p].args ]_vars

\* a route was added while the child runs with the lists of its Start
C11_Witness ==
    /\ last.op = "AddRoute"
    /\ ~last.err
    /\ cmd # 0
    /\ proc[cmd].st = "running"
    /\ proc[cmd].args.noRoute = <<NetB>>
    /\ proc[cmd].args.route # routes

NoEntryTwice(list) == \A i, j \in 1..Len(list) : list[i] = list[j] => i = j

\* C12: the allow list never holds an entry twice; AddRoute of an entry
\* already present and RemoveRoute of an absent one leave the list unchanged
\* and return no error.
C12_AllowListHasNoDuplicates ==
    [][ /\ NoEntryTwice(routes')
        /\ (last'.op = "AddRoute" /\ \E i \in 1..Len(routes) : routes[i] = last'.arg[1]) =>
               routes' = routes /\ ~last'.err
        /\ (last'.op = "RemoveRoute" /\ \A i \in 1..Len(routes) : routes[i] # last'.arg[1]) =>
               routes' = routes /\ ~last'.err ]_vars

\* AddRoute was called with an entry the two-entry list already held
C12_Witness ==
    /\ last.op = "AddRoute"
    /\ last.out
    /\ ~last.err
    /\ Len(routes) = 2
    /\ \E i \in 1..Len(routes) : routes[i] = last.arg[1]

\* C13: AddRoute and BlockRoute with an argument that is no CIDR return an
\* error and leave both lists and the handle unchanged; no list ever holds
\* an entry that does not parse.
C13_InvalidCIDRRejected ==
    [][ /\ (last'.op \in {"AddRoute", "BlockRoute"} /\ ~CIDRSyntaxOk(last'.arg[1])) =>
               last'.err /\ UNCHANGED <<listVars, daemonVars>>
        /\ \A i \in 1..Len(routes') : CIDRSyntaxOk(routes'[i])
        /\ \A i \in 1..Len(blockRoutes') : CIDRSyntaxOk(blockRoutes'[i]) ]_vars

\* BlockRoute refused a malformed argument while the child runs
C13_Witness ==
    /\ last.op = "BlockRoute"
    /\ last.arg = <<NetBadOctet>>
    /\ last.err
    /\ routes # <<>>
    /\ cmd # 0
    /\ proc[cmd].st = "running"


----------------------------------------------------------------------------
(* Further properties of the enforcement loop, SpecEnforce.                 *)

\* the step is the start of a tick whose GetActiveConnections failed
IsSkippedTick == last'.op = "updateTrafficStats" /\ ~last'.out.fetched

\* C15: a tick whose GetActiveConnections fails is skipped as a whole: the
\* active-connections map keeps its content, no sample is stored, no
\* DisconnectUser call is made and the loop is not entered.
C15_FailedFetchSkipsTick ==
    [][ IsSkippedTick => last'.err /\ UNCHANGED <<tickVars, storeVars>> ]_vars

\* a tick was skipped with a map and samples left by an earlier tick
C15_Witness ==
    /\ last.op = "updateTrafficStats"
    /\ last.err
    /\ activeConnections # {}
    /\ traffic # <<>>
    /\ tickPc = "idle"

\* C16: a failed lookup or a failed GetUserTraffic skips only its identifier:
\* the loop goes on with the next position of the same list, nothing is
\* stored or disconnected for the skipped identifier, an identifier whose
\* lookup succeeded is in the map even when its stats failed, and the tick
\* returns only after the last position.
C16_FailureSkipsOnlyItsIdentifier ==
    [][ /\ last'.op = "updateTrafficStats.step" =>
              /\ tickPc = "loop"
              /\ idx' = idx + 1
              /\ last'.arg[1] = serverConnections[idx]
              /\ tickPc' = "loop"
              /\ serverConnections' = serverConnections
              /\ ~last'.out.sampled => traffic' = traffic /\ disconnects' = disconnects
              /\ last'.out.resolved =>
                     <<last'.out.userId, last'.arg[1]>> \in activeConnections'
        /\ last'.op = "updateTrafficStats.return" =>
              tickPc = "loop" /\ idx = Len(serverConnections) + 1 ]_vars

\* after the lookup of the first identifier failed, the sample of the
\* second was stored
C16_Witness ==
    /\ tickPc = "loop"
    /\ serverConnections = <<"ghost", "alice">>
    /\ idx = 3
    /\ StepSampled
    /\ last.out.logged
    /\ last.arg = <<"alice">>

\* C17: a tick whose GetActiveConnections succeeded starts from an empty
\* map, each identifier that resolves adds its entry userId -> identifier,
\* nothing else is added or removed, so that at its return the map holds
\* exactly the resolved identifiers of its list, one entry per user, and no
\* entry of an earlier tick.
C17_MapReplacedByTick ==
    [][ /\ (last'.op = "updateTrafficStats" /\ last'.out.fetched) =>
               activeConnections' = {}
        /\ IsLoopStep =>
               activeConnections' =
                   activeConnections \cup
                   (IF last'.out.resolved THEN {<<last'.out.userId, last'.arg[1]>>} ELSE {})
        /\ last'.op = "updateTrafficStats.return" => activeConnections' = activeConnections
        /\ \A a, b \in activeConnections' : a[1] = b[1] => a = b ]_vars

\* a completed tick left only bob in the map although a sample of alice,
\* listed by an earlier tick, is stored
C17_Witness ==
    /\ last.op = "updateTrafficStats.return"
    /\ activeConnections = {<<2, "bob">>}
    /\ \E i \in 1..Len(traffic) : traffic[i].userId = 1


----------------------------------------------------------------------------
(* Properties of monitorTraffic, SpecMonitor.                               *)

\* C14 (as stated): once the context is cancelled no new tick begins, even
\* when the ticker has fired at the same moment.
C14_NoTickBeginsAfterCancel ==
    [][ ctxCancelled => last'.op # "updateTrafficStats" ]_vars


----------------------------------------------------------------------------
(* Further properties of the route operations, SpecRoutes.                  *)

PermissionOps ==
    {"AddUserRoute", "RemoveUserRoute", "AddUserRouteGroup", "RemoveUserRouteGroup"}

\* C19: AddUserRoute, RemoveUserRoute, AddUserRouteGroup and
\* RemoveUserRouteGroup for a user who is a vassal or has an unknown role
\* return an error and leave every table, the user-route and user-group
\* edges included, as it was.
C19_RefusedWithoutEffect ==
    [][ (/\ last'.op \in PermissionOps
         /\ last'.arg[1] \in DOMAIN users
         /\ users[last'.arg[1]].role \notin {RoleAdmin, RoleUser}) =>
            last'.err /\ UNCHANGED storeVars ]_vars

\* RemoveUserRoute was refused for a vassal who has the edge
C19_Witness ==
    /\ last.op = "RemoveUserRoute"
    /\ last.err
    /\ users[last.arg[1]].role = RoleVassal
    /\ \E e \in BOOLEAN : <<last.arg[1], last.arg[2], e>> \in userRoutes


----------------------------------------------------------------------------
(* Further properties of the daemon control interface, SpecControl.         *)

\* C18 (as stated): every read of the process handle is made under the
\* lock of the interface, the read of the exit watcher included: the watcher
\* never reads s.cmd while another goroutine holds the write lock.
C18_HandleReadUnderLock ==
    [][ last'.op = "watcher.read" => ~MutexHeld ]_vars

----------------------------------------------------------------------------
(* Role transitions of stored users (SpecRoles).                            *)

\* the sender of the update whose handler took the step
Actor == last'.arg[1]
RoleChanged(u) ==
    /\ u \in DOMAIN users
    /\ u \in DOMAIN users'
    /\ users'[u].role # users[u].role

\* C20: over any sequence of bot commands and callbacks, every change of a
\* stored user's role is made by an actor whose own stored role is admin at
\* that moment.
C20_RoleChangesByAdminOnly ==
    [][ \A u \in TgIds : RoleChanged(u) =>
            /\ Actor \in DOMAIN users
            /\ users[Actor].role = RoleAdmin ]_vars

----------------------------------------------------------------------------
(* The resolver on a single individual route (SpecRoutes).                  *)

\* the routes with an edge to the user, and the groups assigned to the user
IndividualRouteIds(u) == {r \in RouteIds : \E e \in BOOLEAN : <<u, r, e>> \in userRoutes}
AssignedGroups(u) == {g \in groupRows : <<u, g>> \in userGroups}
OnlyOneCustomRoute(u, r) ==
    /\ u \in DOMAIN users
    /\ IndividualRouteIds(u) = {r}
    /\ routeRows[r].type = RouteTypeCustom
    /\ AssignedGroups(u) = {}
ResolvedOk == last.op = "GetUserRoutes" /\ ~last.err

\* C21: for a user of any role whose only assignment is one individually
\* assigned custom route and who has no groups, a resolveRoutes that succeeds
\* returns exactly that route, once, with no default routes added.
C21_SingleRouteReturnedAlone ==
    \A r \in RouteIds :
        (ResolvedOk /\ OnlyOneCustomRoute(last.arg[1], r)) =>
            last.out.list = <<RouteOf(r)>>

\* a vassal with one custom route resolved while a default route is stored
C21_Witness ==
    /\ ResolvedOk
    /\ \E r \in RouteIds : OnlyOneCustomRoute(last.arg[1], r)
    /\ users[last.arg[1]].role = RoleVassal
    /\ \E d \in RouteIds : routeRows[d].type = RouteTypeDefault
    /\ Len(last.out.list) = 1

----------------------------------------------------------------------------
(* The resolver's merge over two groups (SpecMerge).                        *)

\* the member routes of a group the user is assigned to, in the order of the query
MembersIfAssigned(u, g) ==
    IF g \in groupRows /\ <<u, g>> \in userGroups THEN RepoGetRoutesInGroup(g) ELSE <<>>
\* one entry per path: the individual routes, then group 1, then group 2
OnePerPath(u) ==
    RepoGetUserRoutes(u) \o MembersIfAssigned(u, 1) \o MembersIfAssigned(u, 2)
ResolvedAllReads == ResolvedOk /\ last.arg[2] = NoFail

\* C22: resolveRoutes merges nothing: when every read succeeds the result is
\* the individual routes in fetch order followed by the member routes of each
\* assigned group in group order, a route appearing once per path that leads
\* to it (the default routes follow only for a vassal whose list is empty).
C22_NoDeduplication ==
    ResolvedAllReads =>
        LET u == last.arg[1]
            paths == OnePerPath(u)
        IN last.out.list =
               paths \o (IF users[u].role = RoleVassal /\ paths = <<>>
                         THEN RepoListRoutes(RouteTypeDefault) ELSE <<>>)

\* a route assigned individually and held by both assigned groups is
\* returned three times
C22_Witness ==
    /\ ResolvedAllReads
    /\ \E r \in RouteIds :
          /\ r \in IndividualRouteIds(last.arg[1])
          /\ \A g \in MergeGroupIds :
                <<last.arg[1], g>> \in userGroups /\ <<g, r>> \in groupItems
          /\ Occurrences(last.out.list, r) = 3

----------------------------------------------------------------------------
(* The resolver as a reader (SpecRoutes).                                   *)

----------------------------------------------------------------------------
(* Stop's return (SpecControlLive).                                         *)

StopReturnedOk == last'.op = "Stop" /\ ~last'.err

----------------------------------------------------------------------------
(* The role policy (SpecRoutes).                                            *)

Capabilities == {"CanAddRoutes", "CanViewLogs", "CanManageUsers", "CanManageInvites",
                 "CanViewInviteTree", "CanOverrideAdminRoutes"}
Granted(role) == {c \in Capabilities : GetRoleLimits(role)[c]}

\* C25: the role policy depends on the role alone and grows with privilege:
\* every capability granted to vassal is granted to user, every capability
\* granted to user is granted to admin, and no stored user's role is granted
\* a capability admin lacks.
C25_PolicyMonotonic ==
    /\ Granted(RoleVassal) \subseteq Granted(RoleUser)
    /\ Granted(RoleUser) \subseteq Granted(RoleAdmin)
    /\ \A u \in DOMAIN users : Granted(users[u].role) \subseteq Granted(RoleAdmin)

\* the policy of a stored user has just let a group assignment through, and
\* the three roles are granted different sets
C25_Witness ==
    /\ last.op = "AddUserRouteGroup"
    /\ ~last.err
    /\ users[last.arg[1]].role = RoleUser
    /\ Granted(RoleVassal) # Granted(RoleUser)
    /\ Granted(RoleUser) # Granted(RoleAdmin)

----------------------------------------------------------------------------
(* The handle and the children alive (SpecControl).                         *)

ChildrenAlive == {p \in Cmds : proc[p].st = "running"}

\* C26: under every interleaving of Start, Stop and the watchers' steps the
\* handle is set whenever a spawned child is alive and it is the handle of
\* that child, no watcher waits for a child other than its own, and at most
\* one child is alive at a time.
C26_HandleSetWhileChildAlive ==
    /\ \A p \in ChildrenAlive : stopPc = "idle" => cmd = p
    /\ \A w \in Cmds : watcher[w].pc \in {"waiting", "waited"} => watcher[w].target = w
    /\ Cardinality(ChildrenAlive) <= 1

----------------------------------------------------------------------------
(* What a reader sees of the active-connections map (SpecReaders).          *)

ReaderReturned == last.op \in {"GetActiveConnections", "DisconnectUser"}
\* the tick in progress has made its last write to the map
TickWritesDone == tickPc = "loop" /\ idx > Len(serverConnections)

\* C27: a reader that runs beside a tick never sees the map in an
\* intermediate state: the map GetActiveConnections copies and the map
\* DisconnectUser looks the user up in are a map some completed tick left,
\* or the initial empty map.
C27_ReaderSeesCompletedMap ==
    (ReaderReturned /\ ~TickWritesDone) => last.out \in completedMaps

----------------------------------------------------------------------------
(* Invite redemption (SpecRedeem).                                          *)

RedeemedBefore(code) == \E r \in redemptions : r[1] = code

\* C28: an invite code is consumed at most once: under any interleaving of
\* UseInviteCode calls with one code at most one of them creates a user, and
\* no call creates a user with a code that is marked used.
C28_CodeConsumedAtMostOnce ==
    [][ \A r \in redemptions' \ redemptions :
            /\ ~RedeemedBefore(r[1])
            /\ IsValid(invites[r[1]]) ]_vars

----------------------------------------------------------------------------
(* The invite quota (SpecQuota).                                            *)

InvitesOf(u) == {i \in 1..Len(invites) : ~invites[i].deleted /\ invites[i].createdBy = u}

\* C29: the invite quota of the role policy is never exceeded: under any
\* interleaving of GenerateInviteCode calls a creator whose role has a
\* positive MaxInvites (4 for user) never has more active codes than that,
\* and a creator whose role has MaxInvites = 0 never creates a code.
C29_QuotaNeverExceeded ==
    \A u \in DOMAIN users :
        LET max == GetRoleLimits(users[u].role).MaxInvites
        IN /\ max > 0 => CountActiveByCreator(invites, u) <= max
           /\ max = 0 => InvitesOf(u) = {}

----------------------------------------------------------------------------
(* The standalone process Manager (SpecManager).                            *)

StartReturned == last'.op = "Manager.Start"
StopReturned == last'.op = "Manager.Stop"
LaunchFailures == {"Failed to generate config", "Failed to get stdout pipe",
                   "Failed to get stderr pipe", "Failed to start OpenConnect"}

\* the running flag and the child processes, in every state
ManagerInvariant ==
    /\ Cardinality(AliveChildren) <= 1
    /\ \A p \in AliveChildren : manager.running /\ manager.cmd = p

\* what Start, Stop and the watcher may do to the flag and to the processes
ManagerSteps ==
    /\ (StartReturned /\ ~last'.err) => manager'.running
    /\ (StartReturned /\ manager.running) =>
           /\ last'.err /\ last'.out = "Process already running"
           /\ manager' = manager
    /\ (StartReturned /\ last'.err) => manager'.running = manager.running
    /\ (StartReturned /\ last'.out \in LaunchFailures) =>
           ~manager'.running /\ AliveChildren' = AliveChildren
    /\ (manager.running /\ ~manager'.running) =>
           /\ last'.op = "Watcher.clear"
           /\ manager.child[manager.cmd] = "exited"
           /\ manager.watcher[last'.arg[1]].cmd = manager.cmd
    /\ (StopReturned /\ ~manager.running) =>
           /\ last'.err /\ last'.out = "Process not running"
           /\ manager' = manager

\* C30: under every interleaving of Start, Stop and the exit watcher the
\* running flag is true from a successful Start until the watcher has seen
\* the exit of the child that Start launched; Start fails with "Process
\* already running" while the flag is true, so at most one child is alive and
\* a living child is the one of m.cmd with the flag true; a Start that fails
\* leaves the flag as it was, false when the launch itself failed; Stop on a
\* manager that is not running returns "Process not running" and signals no
\* process.
C30_ManagerRunningFlag == []ManagerInvariant /\ [][ManagerSteps]_vars

C30_Witness ==
    /\ last.op = "Manager.Start" /\ last.err /\ last.out = "Process already running"
    /\ AliveChildren # {}
    /\ \E w \in ManagerCmds : manager.watcher[w].pc = "done"

====
